---------------------------- MODULE Spec2Model ----------------------------
(***************************************************************************)
(* Model of the DNS diagnostic engine of MCPLocal/servidor.py: the four    *)
(* tools salud_dns, correo_politicas, estado_dnssec and propagacion, the   *)
(* resolver helpers they share and the diagnostic log.                     *)
(*                                                                         *)
(* The network is a stub: `net` fixes, for one behaviour, what every DNS   *)
(* query answers.  A tool call is one action: it reads `dominio` and       *)
(* `net`, builds its report and appends one line to the log.               *)
(*                                                                         *)
(* Names are sequences of labels ("example.com." is                        *)
(* <<"example","com","">>), so that splitting on ".", rstrip(".") and the  *)
(* f-string joins of the code are computed, not assumed.                   *)
(***************************************************************************)
EXTENDS Integers, Sequences, FiniteSets, TLC

VARIABLES
    dominio,      \* the domain argument of the calls (a name, as labels)
    net,          \* the stubbed DNS world
    tool,         \* the tool that ran last ("none" before the first call)
    args,         \* the other arguments of the last call (label drawn, resolutores, text)
    out,          \* the dict the last call returned (NoReport if it raised)
    exc,          \* the exception that escaped the last call ("None" if none)
    sent,         \* the queries or requests the last call sent, in order
    log,          \* LOG_PATH: the texts appended to it, one per write, in file order
    prev,         \* the propagacion call before the last one: its arguments and report
    pc,           \* where each concurrent call stands
    buf,          \* the locals of each concurrent call (log_event: the writes still to make)
    probed        \* the lookups the last salud_dns call made for the CNAME target

vars == <<dominio, net, tool, args, out, exc, sent, log, prev, pc, buf, probed>>

----------------------------------------------------------------------------
(* Bounds *)

MaxLog == 2        \* lines the log may hold before the model stops calling
NumLabels == 2     \* labels random_label may draw
NumWriters == 3    \* calls of log_event that may run at the same time

----------------------------------------------------------------------------
(* Generic helpers *)

Range(s) == {s[i] : i \in 1..Len(s)}

Take(s, n) == SubSeq(s, 1, IF n < Len(s) THEN n ELSE Len(s))

RECURSIVE Concat(_)
Concat(ss) == IF ss = <<>> THEN <<>> ELSE Head(ss) \o Concat(Tail(ss))

\* [f(x) for x in s]
MapSeq(s, F(_)) == [i \in 1..Len(s) |-> F(s[i])]

\* (a variant that keeps every element once, at the place of its last occurrence)
RECURSIVE DedupKeepLast(_)
DedupKeepLast(s) ==
    IF s = <<>> THEN <<>>
    ELSE LET rest == DedupKeepLast(Tail(s))
         IN IF Head(s) \in Range(rest) THEN rest ELSE <<Head(s)>> \o rest

\* list(dict.fromkeys(s)): every element once, at the place of its first occurrence
RECURSIVE DedupKeepFirst(_)
DedupKeepFirst(s) ==
    IF s = <<>> THEN <<>>
    ELSE LET init == DedupKeepFirst(SubSeq(s, 1, Len(s) - 1))
             x == s[Len(s)]
         IN IF x \in Range(init) THEN init ELSE Append(init, x)

\* Python's order on the strings the reports sort: the texts in ascending order.
TextOrder ==
    << "192.0.2.1", "192.0.2.2", "198.51.100.1", "198.51.100.2", "198.51.100.3",
       "198.51.100.4", "2001:db8::1", "2001:db8::2", "2001:db8::a",
       "cdn.example.org", "cdn.example.org.",
       "ns1.example.net", "ns1.example.net.", "ns2.example.net", "ns2.example.net.",
       "ns1.example.net. admin.example.com. 1 7200 900 1209600 300",
       "ns1.example.net. admin.example.com. 2 7200 900 1209600 300" >>

TextRank(t) == CHOOSE i \in 1..Len(TextOrder) : TextOrder[i] = t

\* sorted(list(set(s))) for a list of strings
RECURSIVE SortedSet(_)
SortedSet(S) ==
    IF S = {} THEN <<>>
    ELSE LET m == CHOOSE x \in S : \A y \in S : TextRank(x) <= TextRank(y)
         IN <<m>> \o SortedSet(S \ {m})

----------------------------------------------------------------------------
(* Names *)

\* text.rstrip("."): every trailing dot goes, i.e. every trailing empty label
RECURSIVE RStripDot(_)
RStripDot(n) ==
    IF n # <<>> /\ n[Len(n)] = "" THEN RStripDot(SubSeq(n, 1, Len(n) - 1)) ELSE n

\* the string of a name given as labels
RECURSIVE NameText(_)
NameText(n) ==
    IF n = <<>> THEN ""
    ELSE IF Len(n) = 1 THEN n[1]
    ELSE n[1] \o "." \o NameText(Tail(n))

\* dns.name.from_text accepts a text unless a label other than the last is empty
\* (dns.name.EmptyLabel, a DNSException)
EmptyLabelIn(n) == \E i \in 1..(Len(n) - 1) : n[i] = ""

\* str(name).rstrip(".") of an absolute name of the stub
HostOf(target) == RStripDot(target)

Apex == <<"example", "com">>
Ns1 == <<"ns1", "example", "net", "">>
Ns2 == <<"ns2", "example", "net", "">>
Cdn == <<"cdn", "example", "org", "">>
HostNames == {HostOf(Ns1), HostOf(Ns2), HostOf(Cdn)}

\* random_label(): ten characters drawn from [a-z0-9]
LabelOf(i) == "k3x9q2m7a" \o ToString(i)
Labels == {LabelOf(i) : i \in 1..NumLabels}


----------------------------------------------------------------------------
(* Record sets and resource records of the stub *)

None == [none |-> TRUE]

RRset(ttl, recs) == [ttl |-> ttl, recs |-> recs]

\* `if rrset:` is false for None and for an empty record set
Truthy(rr) == rr # None /\ Len(rr.recs) > 0

ARec(ip) == [text |-> ip, address |-> ip]
NSRec(target) == [text |-> NameText(target), target |-> target]
CNAMERec(target) == [text |-> NameText(target), target |-> target]
SOARec(serial) ==
    [text |-> "ns1.example.net. admin.example.com. " \o ToString(serial)
                  \o " 7200 900 1209600 300"]

\* What resolver.resolve(name, rtype, raise_on_no_answer=False) does: it returns an
\* answer whose rrset is a record set or None (no data of that type), or it raises.
Answer(rr) == [kind |-> "answer", rr |-> rr]
Raises(e) == [kind |-> e, rr |-> None]
NoData == Answer(None)
NxDomain == Raises("NXDOMAIN")

Min(S) == CHOOSE x \in S : \A y \in S : x <= y
Max(S) == CHOOSE x \in S : \A y \in S : x >= y

----------------------------------------------------------------------------
(* The stub resolver: what a query answers in the world `net` *)

DefaultResolver == "default"

\* resolver.resolve of the stub.  A malformed name raises inside resolve
\* (dns.name.from_text); a well-formed one gets what the world holds for it.
StubResolve(srv, name, rtype) ==
    LET n == RStripDot(name) IN
    IF EmptyLabelIn(name) THEN Raises("EmptyLabel")
    ELSE IF srv # DefaultResolver THEN
        IF n = Apex /\ rtype \in DOMAIN net.prop[srv] THEN net.prop[srv][rtype]
        ELSE NxDomain
    ELSE IF n = Apex THEN
        IF rtype \in DOMAIN net.apex THEN net.apex[rtype] ELSE NoData
    ELSE IF n = <<"_dmarc">> \o Apex THEN
        IF rtype = "TXT" THEN net.dmarc ELSE NoData
    ELSE IF Len(n) = Len(Apex) + 1 /\ Tail(n) = Apex /\ n[1] \in DOMAIN net.wild THEN
        IF rtype = "A" THEN net.wild[n[1]] ELSE NoData
    ELSE IF n \in DOMAIN net.host THEN
        IF rtype \in DOMAIN net.host[n] THEN net.host[n][rtype] ELSE NoData
    ELSE NxDomain

\* resolve_rr: (rrset, None) or (None, reason).  The reason is a list of its parts,
\* <<>> standing for None.
ResolveOutcome(raw) ==
    IF raw.kind = "answer" THEN <<raw.rr, <<>>>>
    ELSE IF raw.kind = "NXDOMAIN" THEN <<None, <<"NXDOMAIN">>>>
    ELSE IF raw.kind = "NoAnswer" THEN <<None, <<"NO_ANSWER">>>>
    ELSE <<None, <<"DNS_ERROR", raw.kind>>>>

resolve_rr(srv, name, rtype) == ResolveOutcome(StubResolve(srv, name, rtype))

\* to_str_list: the texts of the records; [] for None (the iteration raises)
to_str_list(rr) == IF rr = None THEN <<>> ELSE MapSeq(rr.recs, LAMBDA r : r.text)

\* flatten_rr_text
flatten_rr_text(rr) == IF ~Truthy(rr) THEN <<>> ELSE MapSeq(rr.recs, LAMBDA r : r.text)

\* [str(r.target).rstrip(".") for r in (ns_rr or [])]
TargetTexts(rr) ==
    IF ~Truthy(rr) THEN <<>> ELSE MapSeq(rr.recs, LAMBDA r : NameText(HostOf(r.target)))

----------------------------------------------------------------------------
(* Authoritative discovery and authoritative queries *)

\* (a variant that takes the host name for a server when the host has no address)
HostAddressesOrName(host) ==
    LET found == Concat([t \in 1..2 |->
            LET rr == resolve_rr(DefaultResolver, host, <<"A", "AAAA">>[t])[1]
            IN IF Truthy(rr) THEN MapSeq(rr.recs, LAMBDA r : r.address) ELSE <<>>])
    IN IF found = <<>> THEN <<NameText(host)>> ELSE found

\* the addresses one NS target contributes: its A records, then its AAAA records
HostAddresses(host) ==
    Concat([t \in 1..2 |->
        LET rr == resolve_rr(DefaultResolver, host, <<"A", "AAAA">>[t])[1]
        IN IF Truthy(rr)
           THEN MapSeq(rr.recs, LAMBDA r : IF "address" \in DOMAIN r THEN r.address ELSE r.text)
           ELSE <<>>])

get_authoritative_ns_ips(domain) ==
    LET ns_rr == resolve_rr(DefaultResolver, domain, "NS")[1] IN
    IF ~Truthy(ns_rr) THEN <<>>
    ELSE DedupKeepFirst(Concat(MapSeq(ns_rr.recs, LAMBDA ns : HostAddresses(HostOf(ns.target)))))

\* the query message of query_authoritative: make_query(want_dnssec=True), RD cleared
AuthQuery(name, rtype, ns_ip) ==
    [name |-> name, rtype |-> rtype, to |-> ns_ip, rd |-> FALSE, do |-> TRUE]

\* What dns.query.udp gives for a server of the stub: a timeout or another error
\* (raised), or a response with its answer section (a list of record sets).
UdpTimeout == [kind |-> "timeout", answer |-> <<>>]
UdpResponse(answer) == [kind |-> "response", answer |-> answer]

\* the records of the apex, by type
ApexRecs(rtype) ==
    CASE rtype = "A" -> <<ARec("192.0.2.1")>>
      [] rtype = "AAAA" -> <<ARec("2001:db8::a")>>
      [] rtype = "NS" -> <<NSRec(Ns1), NSRec(Ns2)>>
      [] OTHER -> <<SOARec(1)>>

AuthView(view, rtype) ==
    IF view = "down" THEN UdpTimeout
    ELSE IF view = "lame" THEN UdpResponse(<<>>)
    ELSE IF view = "signed" THEN
        UdpResponse(<<RRset(300, ApexRecs(rtype)), RRset(300, <<[text |-> "RRSIG " \o rtype]>>)>>)
    ELSE IF view = "v1" THEN
        CASE rtype = "A" -> UdpResponse(<<RRset(300, <<ARec("192.0.2.1"), ARec("192.0.2.2")>>)>>)
          [] rtype = "AAAA" -> UdpResponse(<<RRset(300, <<ARec("2001:db8::a")>>)>>)
          [] rtype = "NS" -> UdpResponse(<<RRset(300, <<NSRec(Ns1), NSRec(Ns2)>>)>>)
          [] OTHER -> UdpResponse(<<RRset(300, <<SOARec(2)>>)>>)
    ELSE
        CASE rtype = "A" -> UdpResponse(<<RRset(60, <<ARec("192.0.2.2")>>)>>)
          [] rtype = "AAAA" -> UdpResponse(<<>>)
          [] rtype = "NS" -> UdpResponse(<<RRset(60, <<NSRec(Ns2), NSRec(Ns1)>>)>>)
          [] OTHER -> UdpResponse(<<RRset(60, <<SOARec(1)>>)>>)

StubUdp(q) ==
    IF q.to \in DOMAIN net.auth THEN AuthView(net.auth[q.to], q.rtype) ELSE UdpTimeout

\* (a variant that keeps the last record set of the answer section)
query_authoritative_last(name, rtype, ns_ip) ==
    LET resp == StubUdp(AuthQuery(name, rtype, ns_ip)) IN
    IF resp.kind = "response" /\ resp.answer # <<>> THEN resp.answer[Len(resp.answer)] ELSE None

\* query_authoritative: the first record set of the answer section, or None
query_authoritative(name, rtype, ns_ip) ==
    LET resp == StubUdp(AuthQuery(name, rtype, ns_ip)) IN
    IF resp.kind = "response" /\ resp.answer # <<>> THEN resp.answer[1] ELSE None

----------------------------------------------------------------------------
(* Findings, reports, the diagnostic log *)

\* the concurrent calls of log_event
Writers == 1..NumWriters

Hallazgo(tipo, severidad, detalle) ==
    [tipo |-> tipo, severidad |-> severidad, detalle |-> detalle]

NoReport == None

\* The event a tool logs.  dur_ms, out_size and ts are numbers read from the clock
\* and from the JSON text of the report; the model keeps their kind.
Event(t, d) ==
    [tool |-> t, dominio |-> NameText(d), dur_ms |-> "int", out_size |-> "int", ts |-> "float"]

\* (a variant that writes the JSON text and the newline in two writes)
SplitWrites(event) == <<[event |-> event, part |-> "json"], [event |-> event, part |-> "newline"]>>

\* f.write(json.dumps(event) + "\n"): the texts log_event hands to the file, one per
\* write; the code makes one write, of the whole line
Writes(event) == <<[event |-> event, part |-> "line"]>>

\* log_event called on its own: the line is appended to LOG_PATH; an error of the
\* open or of the write leaves the file as it was.
log_event(l, t, d, wrote) == IF wrote THEN l \o Writes(Event(t, d)) ELSE l

\* (a variant without the try / except around the write)
log_event_unguarded(wrote) == IF wrote THEN "None" ELSE "OSError"

\* the exception log_event lets out to the tool: none, `except Exception: pass`
log_event_raises(wrote) == "None"

----------------------------------------------------------------------------
(* salud_dns *)

RecordTypes == <<"A", "AAAA", "NS", "SOA">>

\* the authoritative servers salud_dns queries: auth_ips[:4]
AuthServerCap == 4
\* (a variant that queries every discovered server)
AuthServersAll(domain) == get_authoritative_ns_ips(domain)

AuthServers(domain) == Take(get_authoritative_ns_ips(domain), AuthServerCap)

\* the UDP queries of the authoritative loop, in the order they are sent
AuthQueries(domain) ==
    Concat([t \in 1..Len(RecordTypes) |->
        MapSeq(AuthServers(domain), LAMBDA ip : AuthQuery(domain, RecordTypes[t], ip))])

\* auth[typ] = sorted(list(set(vistas)))
AuthSection(domain, rtype) ==
    SortedSet(Range(Concat(MapSeq(AuthServers(domain),
        LAMBDA ip : flatten_rr_text(query_authoritative(domain, rtype, ip))))))

\* (a variant that probes the same label on every call)
TestSubFixedLabel(label, domain) == RStripDot(<<LabelOf(1)>> \o domain)

\* test_sub = f"{random_label()}.{dominio}".rstrip(".")
TestSub(label, domain) == RStripDot(<<label>> \o domain)

WildcardFindings(domain, label) ==
    LET test_sub == TestSub(label, domain)
        rand_a == resolve_rr(DefaultResolver, test_sub, "A")[1]
    IN IF Truthy(rand_a) /\ Len(rand_a.recs) > 0
       THEN <<Hallazgo("wildcard", "warning",
                       [sub |-> NameText(test_sub), resuelve |-> to_str_list(rand_a)])>>
       ELSE <<>>

\* (a variant without the floor of 1 under the smallest TTL)
TtlSkewNoFloor(tmin, tmax) == tmax >= 4 * tmin

\* (a variant with a strict comparison)
TtlSkewStrict(tmin, tmax) == tmax > 4 * Max({1, tmin})

\* tmax >= 4 * max(1, tmin)
TtlSkew(tmin, tmax) == tmax >= 4 * Max({1, tmin})

TtlFindings(domain) ==
    LET ttl_vals == Concat([t \in 1..Len(RecordTypes) |->
                        LET rr == resolve_rr(DefaultResolver, domain, RecordTypes[t])[1]
                        IN IF Truthy(rr) THEN <<rr.ttl>> ELSE <<>>])
    IN IF ttl_vals # <<>> /\ TtlSkew(Min(Range(ttl_vals)), Max(Range(ttl_vals)))
       THEN <<Hallazgo("ttls_desbalanceados", "info",
                       [min |-> Min(Range(ttl_vals)), max |-> Max(Range(ttl_vals))])>>
       ELSE <<>>

\* one recursive lookup, as the resolver is asked it
Lookup(name, rtype) == [name |-> name, rtype |-> rtype]

\* the lookups of the CNAME target: made only when the apex has a CNAME
CnameLookups(domain) ==
    LET cname_rr == resolve_rr(DefaultResolver, domain, "CNAME")[1] IN
    IF ~Truthy(cname_rr) THEN <<>>
    ELSE LET target == HostOf(cname_rr.recs[1].target)
         IN <<Lookup(target, "A"), Lookup(target, "AAAA")>>

\* a variant that reports the target as soon as one of its two lookups fails
CnameFindingsEither(domain) ==
    LET cname_rr == resolve_rr(DefaultResolver, domain, "CNAME")[1] IN
    IF ~Truthy(cname_rr) THEN <<>>
    ELSE LET target == HostOf(cname_rr.recs[1].target)
             a_tgt == resolve_rr(DefaultResolver, target, "A")[1]
             aaaa_tgt == resolve_rr(DefaultResolver, target, "AAAA")[1]
         IN IF ~Truthy(a_tgt) \/ ~Truthy(aaaa_tgt)
            THEN <<Hallazgo("cname_colgante", "error", [target |-> NameText(target)])>>
            ELSE <<>>

CnameFindings(domain) ==
    LET cname_rr == resolve_rr(DefaultResolver, domain, "CNAME")[1] IN
    IF ~Truthy(cname_rr) THEN <<>>
    ELSE LET target == HostOf(cname_rr.recs[1].target)
             a_tgt == resolve_rr(DefaultResolver, target, "A")[1]
             aaaa_tgt == resolve_rr(DefaultResolver, target, "AAAA")[1]
         IN IF ~Truthy(a_tgt) /\ ~Truthy(aaaa_tgt)
            THEN <<Hallazgo("cname_colgante", "error", [target |-> NameText(target)])>>
            ELSE <<>>

salud_dns(domain, label) ==
    [ dominio |-> NameText(domain),
      recursivo |->
        [ A |-> to_str_list(resolve_rr(DefaultResolver, domain, "A")[1]),
          AAAA |-> to_str_list(resolve_rr(DefaultResolver, domain, "AAAA")[1]),
          NS |-> TargetTexts(resolve_rr(DefaultResolver, domain, "NS")[1]),
          SOA |-> to_str_list(resolve_rr(DefaultResolver, domain, "SOA")[1]) ],
      autoritativo |->
        [ A |-> AuthSection(domain, "A"), AAAA |-> AuthSection(domain, "AAAA"),
          NS |-> AuthSection(domain, "NS"), SOA |-> AuthSection(domain, "SOA") ],
      hallazgos |->
        WildcardFindings(domain, label) \o TtlFindings(domain) \o CnameFindings(domain) ]

SaludDns ==
    /\ Len(log) < MaxLog
    /\ \E label \in Labels, wrote \in BOOLEAN :
        /\ tool' = "salud_dns"
        /\ args' = [label |-> label]
        /\ out' = IF log_event_raises(wrote) = "None" THEN salud_dns(dominio, label) ELSE NoReport
        /\ exc' = log_event_raises(wrote)
        /\ sent' = AuthQueries(dominio)
        /\ probed' = CnameLookups(dominio)
        /\ log' = log_event(log, "salud_dns", dominio, wrote)
    /\ UNCHANGED <<dominio, net, prev, pc, buf>>

----------------------------------------------------------------------------
(* correo_politicas *)

\* An MX text is kept as its whitespace-separated fields, <<preference, exchange>>,
\* which is what s.split() gives back.
MxToText(r) == <<r.preference, NameText(r.exchange)>>

\* int(s): the number a decimal text denotes; a text that denotes none raises ValueError
MaxPreference == 20
IsNumeric(s) == \E n \in 0..MaxPreference : ToString(n) = s
IntOf(s) == CHOOSE n \in 0..MaxPreference : ToString(n) = s

\* the key of the sort: int(s.split()[0])
MxKey(text) == IntOf(text[1])

\* (a variant that leaves the list as the resolver gave it)
Unsorted(texts) == texts

\* sorted(texts, key=MxKey): ascending, and stable (equal keys keep their order)
RECURSIVE SortedByKey(_)
SortedByKey(texts) ==
    IF texts = <<>> THEN <<>>
    ELSE LET init == SortedByKey(SubSeq(texts, 1, Len(texts) - 1))
             x == texts[Len(texts)]
             k == Cardinality({i \in 1..Len(init) : MxKey(init[i]) <= MxKey(x)})
         IN SubSeq(init, 1, k) \o <<x>> \o SubSeq(init, k + 1, Len(init))

\* (a variant that drops the entries whose preference is no number and sorts the rest)
MxListNumericOnly(mx_rr) ==
    IF ~Truthy(mx_rr) THEN <<>>
    ELSE LET texts == MapSeq(mx_rr.recs, MxToText)
         IN SortedByKey(SelectSeq(texts, LAMBDA t : IsNumeric(t[1])))

\* the mx list: sorted by preference, or as the resolver gave it when the sort raises
MxList(mx_rr) ==
    IF ~Truthy(mx_rr) THEN <<>>
    ELSE LET texts == MapSeq(mx_rr.recs, MxToText)
         IN IF \A i \in 1..Len(texts) : IsNumeric(texts[i][1])
            THEN SortedByKey(texts)
            ELSE texts

\* A TXT text is kept as its pieces; the double quote is a piece of its own.
Quote == "\""

\* txt.strip('"'): every leading and every trailing double quote goes
RECURSIVE StripQuotes(_)
StripQuotes(t) ==
    IF t # <<>> /\ t[1] = Quote THEN StripQuotes(Tail(t))
    ELSE IF t # <<>> /\ t[Len(t)] = Quote THEN StripQuotes(SubSeq(t, 1, Len(t) - 1))
    ELSE t

\* str.lower() on the pieces the stub uses
LowerPiece(x) ==
    CASE x = "V=SPF1" -> "v=spf1"
      [] x = "v=DMARC1" -> "v=dmarc1"
      [] OTHER -> x

\* txt.lower().startswith(prefix), the prefix being a piece
StartsWithLower(t, prefix) == t # <<>> /\ LowerPiece(t[1]) = prefix

\* (a variant that keeps the last matching record, as a loop without `break` would)
LastPolicy(rr, prefix) ==
    IF ~Truthy(rr) THEN None
    ELSE LET hits == {i \in 1..Len(rr.recs) : StartsWithLower(StripQuotes(rr.recs[i].text), prefix)}
         IN IF hits = {} THEN None ELSE StripQuotes(rr.recs[Max(hits)].text)

\* the first record whose stripped text starts with the prefix, or None
FirstPolicy(rr, prefix) ==
    IF ~Truthy(rr) THEN None
    ELSE LET hits == {i \in 1..Len(rr.recs) : StartsWithLower(StripQuotes(rr.recs[i].text), prefix)}
         IN IF hits = {} THEN None ELSE StripQuotes(rr.recs[Min(hits)].text)

\* (a variant that checks for MX after the two policies)
CorreoFindingsMxLast(mx_rr, spf_txt, dmarc_txt) ==
    (IF spf_txt # None /\ spf_txt # <<>> THEN <<>>
     ELSE <<Hallazgo("sin_spf", "warning", "No se encontro SPF en TXT del apex.")>>)
    \o (IF dmarc_txt # None /\ dmarc_txt # <<>> THEN <<>>
        ELSE <<Hallazgo("sin_dmarc", "warning", "No se encontro politica DMARC en _dmarc.")>>)
    \o (IF Truthy(mx_rr) THEN <<>>
        ELSE <<Hallazgo("sin_mx", "warning", "El dominio no publica registros MX.")>>)

\* the findings, in the order the checks append them: MX, SPF, DMARC
CorreoFindings(mx_rr, spf_txt, dmarc_txt) ==
    (IF Truthy(mx_rr) THEN <<>>
     ELSE <<Hallazgo("sin_mx", "warning", "El dominio no publica registros MX.")>>)
    \o (IF spf_txt # None /\ spf_txt # <<>> THEN <<>>
        ELSE <<Hallazgo("sin_spf", "warning", "No se encontro SPF en TXT del apex.")>>)
    \o (IF dmarc_txt # None /\ dmarc_txt # <<>> THEN <<>>
        ELSE <<Hallazgo("sin_dmarc", "warning", "No se encontro politica DMARC en _dmarc.")>>)

correo_politicas(domain) ==
    LET mx_rr == resolve_rr(DefaultResolver, domain, "MX")[1]
        txt_rr == resolve_rr(DefaultResolver, domain, "TXT")[1]
        dmarc_rr == resolve_rr(DefaultResolver, <<"_dmarc">> \o domain, "TXT")[1]
        spf_txt == FirstPolicy(txt_rr, "v=spf1")
        dmarc_txt == FirstPolicy(dmarc_rr, "v=dmarc1")
    IN [ dominio |-> NameText(domain),
         mx |-> MxList(mx_rr),
         spf |-> spf_txt,
         dmarc |-> dmarc_txt,
         hallazgos |-> CorreoFindings(mx_rr, spf_txt, dmarc_txt) ]

CorreoPoliticas ==
    /\ Len(log) < MaxLog
    /\ \E wrote \in BOOLEAN :
        /\ tool' = "correo_politicas"
        /\ args' = <<>>
        /\ out' = IF log_event_raises(wrote) = "None" THEN correo_politicas(dominio) ELSE NoReport
        /\ exc' = log_event_raises(wrote)
        /\ sent' = <<>>
        /\ log' = log_event(log, "correo_politicas", dominio, wrote)
    /\ UNCHANGED <<dominio, net, prev, pc, buf, probed>>

----------------------------------------------------------------------------
(* estado_dnssec *)

\* (a variant that lists the numbers from the largest down)
SortedIntsDescending(S) ==
    [i \in 1..Cardinality(S) |-> CHOOSE x \in S : Cardinality({y \in S : y > x}) = i - 1]

\* sorted(list(set(xs))) for a list of numbers
RECURSIVE SortedInts(_)
SortedInts(S) ==
    IF S = {} THEN <<>> ELSE <<Min(S)>> \o SortedInts(S \ {Min(S)})

\* dns.dnssec.make_ds(name, key, digest_type): the DS record of the key, its digest
\* standing for the hash of (owner name, key) under the digest type; a digest type the
\* library cannot compute raises.
DigestSupported(digest_type) == digest_type \in {"SHA256", "SHA384"}
make_ds(name, key, digest_type) ==
    [ key_tag |-> key.key_tag, algorithm |-> key.algorithm, digest_type |-> digest_type,
      digest |-> <<name, key.id, digest_type>> ]

\* dns.name.from_text(dominio): the absolute name
NameFromText(domain) == RStripDot(domain)

\* step 1: DS at the parent
DsStep(ds_rr) ==
    IF Truthy(ds_rr) /\ Len(ds_rr.recs) > 0
    THEN [tiene_ds |-> TRUE, detalles |-> <<[msg |-> "DS en el padre", n |-> Len(ds_rr.recs)]>>]
    ELSE [tiene_ds |-> FALSE, detalles |-> <<[msg |-> "No hay DS publicado en el padre."]>>]

\* step 2: DNSKEY at the apex
DnskeyAlgos(dnskey_rr) ==
    IF Truthy(dnskey_rr) THEN MapSeq(dnskey_rr.recs, LAMBDA r : r.algorithm) ELSE <<>>

DnskeyStep(dnskey_rr) ==
    IF Truthy(dnskey_rr)
    THEN [detalles |-> <<[msg |-> "DNSKEY presente", n |-> Len(dnskey_rr.recs),
                          algoritmos |-> SortedInts(Range(DnskeyAlgos(dnskey_rr)))]>>,
          hallazgos |-> <<>>]
    ELSE [detalles |-> <<>>,
          hallazgos |-> <<Hallazgo("sin_dnskey", "error",
                                   "No se pudo obtener DNSKEY del dominio.")>>]

\* (a variant that compares without the guard `if tiene_ds and dnskey_rr`)
DsCompareStepUnguarded(name, tiene_ds, ds_rr, dnskey_rr) ==
    LET keys == IF Truthy(dnskey_rr) THEN dnskey_rr.recs ELSE <<>>
        dss == IF Truthy(ds_rr) THEN ds_rr.recs ELSE <<>>
        matches == Cardinality({<<k, d>> \in (1..Len(keys)) \X (1..Len(dss)) :
                        make_ds(name, keys[k], dss[d].digest_type) = dss[d]})
    IN [detalles |-> <<>>,
        hallazgos |-> IF matches = 0
                      THEN <<Hallazgo("ds_dnskey_mismatch", "error",
                               "Ningun DNSKEY coincide con DS del padre (posible ruptura de cadena).")>>
                      ELSE <<>>]

\* step 3: the DS/DNSKEY comparison.  The loops run over every (key, ds) pair; the
\* first make_ds that raises ends them, and the handler only adds a detail line.
DsCompareStep(name, tiene_ds, ds_rr, dnskey_rr) ==
    IF ~(tiene_ds /\ Truthy(dnskey_rr)) THEN [detalles |-> <<>>, hallazgos |-> <<>>]
    ELSE IF \E i \in 1..Len(ds_rr.recs) : ~DigestSupported(ds_rr.recs[i].digest_type)
    THEN [detalles |-> <<[msg |-> "Error comparando DS/DNSKEY", e |-> "UnsupportedAlgorithm"]>>,
          hallazgos |-> <<>>]
    ELSE LET matches == Cardinality({<<k, d>> \in (1..Len(dnskey_rr.recs)) \X (1..Len(ds_rr.recs)) :
                            make_ds(name, dnskey_rr.recs[k], ds_rr.recs[d].digest_type)
                                = ds_rr.recs[d]})
         IN [detalles |-> <<>>,
             hallazgos |-> IF matches = 0
                           THEN <<Hallazgo("ds_dnskey_mismatch", "error",
                                    "Ningun DNSKEY coincide con DS del padre (posible ruptura de cadena).")>>
                           ELSE <<>>]

\* the query of the SOA step: make_query(dominio, "SOA", want_dnssec=True), sent to
\* the first nameserver of the default resolver
FirstNameserver == "nameservers[0]"
SoaQuery(domain) ==
    [name |-> domain, rtype |-> "SOA", to |-> FirstNameserver, rd |-> TRUE, do |-> TRUE]

\* the last record set of the answer that satisfies the test, or None
LastRRset(answer, Test(_)) ==
    LET hits == {i \in 1..Len(answer) : Test(answer[i])}
    IN IF hits = {} THEN None ELSE answer[Max(hits)]

\* (a variant whose exception handler leaves the flag unset)
OnSoaExceptionUnset(e) ==
    [ flag |-> "null", detalles |-> <<>>,
      hallazgos |-> <<Hallazgo("firma_soa_invalida", "warning", [e |-> e])>> ]

\* except Exception as e: soa_signed_ok = False, one warning finding
OnSoaException(e) ==
    [ flag |-> "false", detalles |-> <<>>,
      hallazgos |-> <<Hallazgo("firma_soa_invalida", "warning", [e |-> e])>> ]

\* step 4: the SOA signature.  The flag is "true", "false" or "null" (None).
SoaStep(domain, dnskey_rr) ==
    LET resp == net.soaq IN
    IF resp.kind # "response" THEN OnSoaException(resp.kind)
    ELSE LET rrset_soa == LastRRset(resp.answer, LAMBDA r : r.rdtype = "SOA")
             rrsig_soa == LastRRset(resp.answer,
                                    LAMBDA r : r.rdtype = "RRSIG" /\ r.covers = "SOA")
         IN IF Truthy(rrset_soa) /\ Truthy(rrsig_soa) /\ Truthy(dnskey_rr)
            THEN IF net.validates
                 THEN [flag |-> "true",
                       detalles |-> <<[msg |-> "SOA validado contra RRSIG y DNSKEY (OK)."]>>,
                       hallazgos |-> <<>>]
                 ELSE OnSoaException("ValidationFailure")
            ELSE [flag |-> "null",
                  detalles |-> <<[msg |-> "No se pudo validar SOA (faltan RRSIG/DNSKEY en respuesta autoritativa)."]>>,
                  hallazgos |-> <<>>]

estado_dnssec(domain) ==
    LET name == NameFromText(domain)
        ds_rr == resolve_rr(DefaultResolver, domain, "DS")[1]
        dnskey_rr == resolve_rr(DefaultResolver, domain, "DNSKEY")[1]
        s1 == DsStep(ds_rr)
        s2 == DnskeyStep(dnskey_rr)
        s3 == DsCompareStep(name, s1.tiene_ds, ds_rr, dnskey_rr)
        s4 == SoaStep(domain, dnskey_rr)
    IN [ dominio |-> NameText(domain),
         tiene_ds_en_padre |-> s1.tiene_ds,
         dnskey_algoritmos |-> SortedInts(Range(DnskeyAlgos(dnskey_rr))),
         soa_firmada_valida |-> s4.flag,
         detalles |-> s1.detalles \o s2.detalles \o s3.detalles \o s4.detalles,
         hallazgos |-> s2.hallazgos \o s3.hallazgos \o s4.hallazgos ]

\* dns.name.from_text(dominio) stands outside every try: a malformed domain raises
\* out of the tool, before any query and before log_event.
EstadoDnssec ==
    /\ Len(log) < MaxLog
    /\ \E wrote \in BOOLEAN :
        /\ tool' = "estado_dnssec"
        /\ args' = <<>>
        /\ IF EmptyLabelIn(dominio)
           THEN /\ out' = NoReport
                /\ exc' = "EmptyLabel"
                /\ sent' = <<>>
                /\ log' = log
           ELSE /\ out' = IF log_event_raises(wrote) = "None" THEN estado_dnssec(dominio)
                          ELSE NoReport
                /\ exc' = log_event_raises(wrote)
                /\ sent' = <<SoaQuery(dominio)>>
                /\ log' = log_event(log, "estado_dnssec", dominio, wrote)
    /\ UNCHANGED <<dominio, net, prev, pc, buf, probed>>

----------------------------------------------------------------------------
(* propagacion *)

DefaultResolutores == <<"1.1.1.1", "8.8.8.8", "9.9.9.9">>

\* (a variant that takes the default list for a missing argument only)
DefaultForNoneOnly(resolutores) ==
    IF resolutores = None THEN DefaultResolutores ELSE resolutores.list

\* `if not resolutores:`: None and the empty list give the default list
\* (the argument is None or [list |-> the list given])
EffectiveResolutores(resolutores) ==
    IF resolutores = None \/ resolutores.list = <<>> THEN DefaultResolutores
    ELSE resolutores.list

\* [t.to_text().strip('"') for t in (txt_rr or [])][:3]
TxtSampleSize == 3
TxtSample(txt_rr) ==
    IF ~Truthy(txt_rr) THEN <<>>
    ELSE Take(MapSeq(txt_rr.recs, LAMBDA t : StripQuotes(t.text)), TxtSampleSize)

\* respuestas[ip]
RespuestasOf(ip, domain) ==
    [ A |-> to_str_list(resolve_rr(ip, domain, "A")[1]),
      AAAA |-> to_str_list(resolve_rr(ip, domain, "AAAA")[1]),
      NS |-> TargetTexts(resolve_rr(ip, domain, "NS")[1]),
      TXT_sample |-> TxtSample(resolve_rr(ip, domain, "TXT")[1]) ]

\* (a variant that keeps the dict of the call before)
StaleRespuestas == IF tool = "propagacion" THEN out.respuestas ELSE <<>>

\* respuestas = {}: every call starts from an empty dict
EmptyRespuestas == <<>>

\* the dict after the loop over the resolvers
Respuestas(domain, resolutores) ==
    [ip \in DOMAIN EmptyRespuestas \cup Range(resolutores) |->
        IF ip \in Range(resolutores) THEN RespuestasOf(ip, domain) ELSE EmptyRespuestas[ip]]

\* (a variant that takes what every resolver has for what any resolver has)
Intersection(sets) ==
    IF sets = {} THEN {} ELSE {x \in UNION sets : \A S \in sets : x \in S}

\* universe = set().union(*sets.values()) if sets else set()
Universe(sets) == UNION sets

\* (a variant that lists only the resolvers that miss something)
DiferenciasOnlyMissing(respuestas, rtype) ==
    LET sets == [ip \in DOMAIN respuestas |-> Range(respuestas[ip][rtype])]
        universe == Universe({sets[ip] : ip \in DOMAIN respuestas})
    IN [ip \in {x \in DOMAIN respuestas : universe \ sets[x] # {}} |->
            SortedSet(universe \ sets[ip])]

\* diffs[typ]: for every ip, sorted(list(universe - sets[ip]))
Diferencias(respuestas, rtype) ==
    LET sets == [ip \in DOMAIN respuestas |-> Range(respuestas[ip][rtype])]
        universe == Universe({sets[ip] : ip \in DOMAIN respuestas})
    IN [ip \in DOMAIN respuestas |-> SortedSet(universe \ sets[ip])]

propagacion(domain, resolutores) ==
    LET used == EffectiveResolutores(resolutores)
        respuestas == Respuestas(domain, used)
    IN [ dominio |-> NameText(domain),
         resolutores |-> used,
         respuestas |-> respuestas,
         diferencias |-> [ A |-> Diferencias(respuestas, "A"),
                           AAAA |-> Diferencias(respuestas, "AAAA"),
                           NS |-> Diferencias(respuestas, "NS") ] ]

\* the recursive lookups of the loop over the resolvers, in order
PropLookups(domain, resolutores) ==
    Concat(MapSeq(EffectiveResolutores(resolutores), LAMBDA ip :
        [t \in 1..4 |-> [srv |-> ip, name |-> domain, rtype |-> <<"A", "AAAA", "NS", "TXT">>[t]]]))

\* the resolver lists the calls are made with (None: the argument is left out)
CustomResolver == "192.0.2.53"
ResolverLists ==
    {None} \cup { [list |-> l] : l \in { <<>>, <<CustomResolver>>, <<"9.9.9.9", CustomResolver>>,
                                        <<"8.8.8.8", "8.8.8.8", "1.1.1.1">> } }

\* `prev` may keep any earlier call, so that every pair of calls gets compared
Propagacion ==
    /\ Len(log) < MaxLog
    /\ \E resolutores \in ResolverLists, wrote \in BOOLEAN :
        /\ tool' = "propagacion"
        /\ args' = [resolutores |-> resolutores]
        /\ out' = IF log_event_raises(wrote) = "None" THEN propagacion(dominio, resolutores) ELSE NoReport
        /\ exc' = log_event_raises(wrote)
        /\ sent' = PropLookups(dominio, resolutores)
        /\ log' = log_event(log, "propagacion", dominio, wrote)
    /\ \/ prev' = prev
       \/ tool = "propagacion" /\ prev' = [args |-> args, out |-> out]
    /\ UNCHANGED <<dominio, net, pc, buf, probed>>

----------------------------------------------------------------------------
(* The stubbed worlds *)

WellFormedDomains == {Apex, Apex \o <<"">>}          \* "example.com", "example.com."
MalformedDomains == {<<"a", "", "b">>}               \* "a..b"

TTLs == {0, 10, 39, 40}

AuthIPs == {"198.51.100.1", "198.51.100.2", "198.51.100.3", "198.51.100.4",
            "2001:db8::1", "2001:db8::2"}

AddrAnswer(ips) == Answer(RRset(300, MapSeq(ips, ARec)))

HostsUp ==
    [h \in HostNames |->
        IF h = HostOf(Ns1) THEN [A |-> AddrAnswer(<<"198.51.100.1">>), AAAA |-> NoData]
        ELSE IF h = HostOf(Ns2) THEN [A |-> AddrAnswer(<<"198.51.100.4">>), AAAA |-> NoData]
        ELSE [A |-> AddrAnswer(<<"192.0.2.2">>), AAAA |-> NoData]]

HostsDown == [h \in HostNames |-> [A |-> NxDomain, AAAA |-> NxDomain]]

ResolverIPs == Range(DefaultResolutores) \cup {CustomResolver}

ApexTypes == {"A", "AAAA", "NS", "SOA", "CNAME", "MX", "TXT", "DS", "DNSKEY"}

\* a world where nothing resolves
BaseNet ==
    [ apex |-> [t \in ApexTypes |-> NxDomain],
      wild |-> [l \in Labels |-> NxDomain],
      dmarc |-> NxDomain,
      host |-> HostsDown,
      auth |-> [ip \in AuthIPs |-> "down"],
      soaq |-> UdpTimeout,
      validates |-> FALSE,
      prop |-> [ip \in ResolverIPs |-> [t \in {"A", "AAAA", "NS", "TXT"} |-> Raises("Timeout")]] ]

\* the apex record sets every world has unless it says otherwise
ApexUp ==
    [t \in ApexTypes |->
        IF t \in {"A", "AAAA", "NS", "SOA"} THEN Answer(RRset(300, ApexRecs(t))) ELSE NoData]

\* worlds that vary the TTLs of the apex record sets (-1: the type has no data)
TtlWorlds ==
    { [BaseNet EXCEPT
         !.apex = [t \in ApexTypes |->
                     IF t \in DOMAIN ttl /\ ttl[t] # -1
                     THEN Answer(RRset(ttl[t], ApexRecs(t)))
                     ELSE NoData],
         !.host = HostsUp, !.auth = [ip \in AuthIPs |-> "v1"]] :
        ttl \in [{"A", "AAAA", "NS", "SOA"} -> TTLs \cup {-1}] }

\* worlds that vary what the probed subdomains and the apex CNAME answer
WildAnswers == {NxDomain, NoData, AddrAnswer(<<"192.0.2.1", "192.0.2.2">>)}
CnameAnswers == {NoData, Answer(RRset(300, <<CNAMERec(Cdn)>>))}
TargetAnswers == {NxDomain, AddrAnswer(<<"192.0.2.2">>)}

HeuristicWorlds ==
    { [BaseNet EXCEPT
         !.apex = [ApexUp EXCEPT !["A"] = a, !["CNAME"] = c],
         !.wild = w,
         !.host = [HostsUp EXCEPT ![HostOf(Cdn)] = [A |-> ta, AAAA |-> taaaa]],
         !.auth = [ip \in AuthIPs |-> "v1"]] :
        a \in {Raises("Timeout"), ApexUp["A"]}, c \in CnameAnswers,
        w \in [Labels -> WildAnswers], ta \in TargetAnswers, taaaa \in TargetAnswers }

\* worlds that vary the NS set, the addresses of the NS hosts and the servers behind them
NsAnswers ==
    {NxDomain, NoData, Raises("Timeout")}
        \cup {Answer(RRset(300, ns)) : ns \in {<<NSRec(Ns1)>>, <<NSRec(Ns1), NSRec(Ns2)>>,
                                                <<NSRec(Ns2), NSRec(Ns1)>>}}
Ns1A == {NxDomain, AddrAnswer(<<"198.51.100.1">>),
         AddrAnswer(<<"198.51.100.1", "198.51.100.2", "198.51.100.3">>)}
Ns2A == {NxDomain, AddrAnswer(<<"198.51.100.1">>), AddrAnswer(<<"198.51.100.4">>)}
Ns1AAAA == {NoData, AddrAnswer(<<"2001:db8::1">>)}
Ns2AAAA == {NoData, AddrAnswer(<<"2001:db8::2">>)}
AuthPlans ==
    { [ip \in AuthIPs |-> "v1"], [ip \in AuthIPs |-> "down"], [ip \in AuthIPs |-> "lame"],
      [ip \in AuthIPs |-> IF ip \in {"198.51.100.1", "2001:db8::1"} THEN "v1" ELSE "v2"] }

DiscoveryWorlds ==
    { [BaseNet EXCEPT !.apex = [ApexUp EXCEPT !["NS"] = ns], !.host = HostsUp,
                      !.auth = [ip \in AuthIPs |-> "v1"]] :
        ns \in {a \in NsAnswers : a.kind # "answer" \/ a.rr = None} }
    \cup
    { [BaseNet EXCEPT
         !.apex = [ApexUp EXCEPT !["NS"] = ns],
         !.host = [HostsUp EXCEPT ![HostOf(Ns1)] = [A |-> a1, AAAA |-> b1],
                                  ![HostOf(Ns2)] = [A |-> a2, AAAA |-> b2]],
         !.auth = plan] :
        ns \in {a \in NsAnswers : a.kind = "answer" /\ a.rr # None},
        a1 \in Ns1A, b1 \in Ns1AAAA, a2 \in Ns2A, b2 \in Ns2AAAA,
        plan \in AuthPlans }

SaludWorlds == TtlWorlds \cup HeuristicWorlds \cup DiscoveryWorlds

\* the lists of at most n distinct elements of S, the empty one left out
SeqsNoRep(S, n) ==
    UNION { {q \in [1..k -> S] : \A i, j \in 1..k : i # j => q[i] # q[j]} : k \in 1..n }

\* worlds that vary the MX set, and worlds that vary the TXT sets
MaxMx == 2
MaxTxt == 2
Mail1 == <<"mail1", "example", "com", "">>
Mail2 == <<"mail2", "example", "com", "">>
MXRec(pref, exchange) == [preference |-> pref, exchange |-> exchange]
MxRecs == {MXRec("10", Mail1), MXRec("20", Mail2), MXRec("10", Mail2), MXRec("pri", Mail1)}
MxAnswers == {NxDomain, NoData} \cup {Answer(RRset(300, q)) : q \in SeqsNoRep(MxRecs, MaxMx)}

TXTRec(pieces) == [text |-> pieces]
TxtRecs ==
    { TXTRec(<<Quote, "v=spf1", " -all", Quote>>),
      TXTRec(<<Quote, "V=SPF1", " ~all", Quote>>),
      TXTRec(<<Quote, "site-verification=abc", Quote>>),
      TXTRec(<<Quote, "v=spf1", " mx", Quote, " ", Quote, Quote>>),
      TXTRec(<<Quote, "x ", "v=spf1", Quote>>) }
TxtAnswers == {NxDomain, NoData} \cup {Answer(RRset(300, q)) : q \in SeqsNoRep(TxtRecs, MaxTxt)}

Dmarc1 == TXTRec(<<Quote, "v=DMARC1", "; p=none", Quote>>)
Dmarc2 == TXTRec(<<Quote, "v=dmarc1", "; p=reject", Quote>>)
DmarcOther == TXTRec(<<Quote, "site-verification=abc", Quote>>)
DmarcSplit == TXTRec(<<Quote, "v=dmarc1", "; p=none", Quote, " ", Quote, Quote>>)
DmarcAnswers ==
    {NxDomain, NoData}
        \cup {Answer(RRset(300, q)) :
                q \in {<<Dmarc1>>, <<Dmarc2>>, <<DmarcOther>>, <<DmarcOther, Dmarc1>>,
                       <<Dmarc1, Dmarc2>>, <<DmarcSplit>>}}

MxWorlds ==
    { [BaseNet EXCEPT !.apex = [ApexUp EXCEPT !["MX"] = mx, !["TXT"] = txt], !.dmarc = d] :
        mx \in MxAnswers,
        txt \in {NoData, Answer(RRset(300, <<TXTRec(<<Quote, "v=spf1", " -all", Quote>>)>>))},
        d \in {NxDomain, Answer(RRset(300, <<Dmarc2>>))} }

TxtWorlds ==
    { [BaseNet EXCEPT !.apex = [ApexUp EXCEPT !["MX"] = mx, !["TXT"] = txt], !.dmarc = d] :
        mx \in {NoData, Answer(RRset(300, <<MXRec("10", Mail1)>>))},
        txt \in TxtAnswers,
        d \in DmarcAnswers }

CorreoWorlds == MxWorlds \cup TxtWorlds

\* worlds that vary the DS set, the DNSKEY set and the answer to the SOA query
MaxDs == 2
MaxKeys == 2
Key1 == [id |-> "k1", key_tag |-> 11, algorithm |-> 13]
Key2 == [id |-> "k2", key_tag |-> 22, algorithm |-> 8]
KeyGone == [id |-> "k0", key_tag |-> 33, algorithm |-> 13]
DsRecs ==
    { make_ds(Apex, Key1, "SHA256"),       \* the DS of Key1
      make_ds(Apex, KeyGone, "SHA256"),    \* the DS of a key the zone no longer publishes
      make_ds(Apex, Key1, "GOST") }        \* the DS of Key1 under a digest type that raises
DsAnswers == {NxDomain, NoData} \cup {Answer(RRset(300, q)) : q \in SeqsNoRep(DsRecs, MaxDs)}
Key3 == [id |-> "k3", key_tag |-> 44, algorithm |-> 13]   \* a second key of algorithm 13
DnskeyAnswers ==
    {NxDomain, NoData, Answer(RRset(300, <<Key1, Key3>>))}
        \cup {Answer(RRset(300, q)) : q \in SeqsNoRep({Key1, Key2}, MaxKeys)}

SoaAnswerSet == [rdtype |-> "SOA", ttl |-> 300, recs |-> <<SOARec(1)>>]
RrsigSet(covers) ==
    [rdtype |-> "RRSIG", covers |-> covers, ttl |-> 300, recs |-> <<[text |-> "RRSIG"]>>]
SoaResponses ==
    { UdpTimeout, UdpResponse(<<>>), UdpResponse(<<SoaAnswerSet>>),
      UdpResponse(<<SoaAnswerSet, RrsigSet("SOA")>>), UdpResponse(<<RrsigSet("SOA")>>),
      UdpResponse(<<SoaAnswerSet, RrsigSet("NS")>>) }

DnssecWorlds ==
    { [BaseNet EXCEPT !.apex = [ApexUp EXCEPT !["DS"] = ds, !["DNSKEY"] = k],
                      !.soaq = r, !.validates = v] :
        ds \in DsAnswers, k \in DnskeyAnswers, r \in SoaResponses, v \in BOOLEAN }

\* worlds that vary what each resolver answers
PropRest ==
    { [AAAA |-> NoData, NS |-> Raises("Timeout"), TXT |-> NxDomain],
      [AAAA |-> AddrAnswer(<<"2001:db8::a">>),
       NS |-> Answer(RRset(300, <<NSRec(Ns2), NSRec(Ns1)>>)),
       TXT |-> Answer(RRset(300, <<TXTRec(<<Quote, "v=spf1", " -all", Quote>>),
                                   TXTRec(<<Quote, "site-verification=abc", Quote>>),
                                   TXTRec(<<Quote, "V=SPF1", " ~all", Quote>>),
                                   TXTRec(<<Quote, "x ", "v=spf1", Quote>>)>>))] }
PropViews ==
    LET down == CHOOSE r \in PropRest : r.AAAA = NoData
        up == CHOOSE r \in PropRest : r.AAAA # NoData
    IN { [A |-> v[1], AAAA |-> v[2].AAAA, NS |-> v[2].NS, TXT |-> v[2].TXT] :
           v \in { <<Raises("Timeout"), down>>, <<AddrAnswer(<<"192.0.2.1">>), down>>,
                   <<AddrAnswer(<<"192.0.2.1">>), up>>,
                   <<AddrAnswer(<<"192.0.2.2", "192.0.2.1">>), up>> } }
CustomViews ==
    { [A |-> AddrAnswer(<<"192.0.2.2">>), AAAA |-> NoData,
       NS |-> Answer(RRset(300, <<NSRec(Ns1)>>)), TXT |-> NoData],
      [t \in {"A", "AAAA", "NS", "TXT"} |-> Raises("NoNameservers")] }

PropWorlds ==
    { [BaseNet EXCEPT !.prop = [ip \in ResolverIPs |->
                                  IF ip = CustomResolver THEN c ELSE v[ip]]] :
        v \in [Range(DefaultResolutores) -> PropViews], c \in CustomViews }

InitSalud ==
    /\ \/ dominio = Apex /\ net \in SaludWorlds
       \/ dominio \in WellFormedDomains /\ net \in HeuristicWorlds
       \/ dominio \in MalformedDomains /\ net \in {BaseNet}
    /\ tool = "none"
    /\ args = <<>>
    /\ out = NoReport
    /\ exc = "None"
    /\ sent = <<>>
    /\ log = <<>>
    /\ prev = None
    /\ pc = [w \in Writers |-> "idle"]
    /\ buf = [w \in Writers |-> <<>>]
    /\ probed = <<>>

SpecSalud == InitSalud /\ [][SaludDns]_vars

InitCorreo ==
    /\ \/ dominio \in WellFormedDomains /\ net \in CorreoWorlds
       \/ dominio \in MalformedDomains /\ net \in {BaseNet}
    /\ tool = "none"
    /\ args = <<>>
    /\ out = NoReport
    /\ exc = "None"
    /\ sent = <<>>
    /\ log = <<>>
    /\ prev = None
    /\ pc = [w \in Writers |-> "idle"]
    /\ buf = [w \in Writers |-> <<>>]
    /\ probed = <<>>

SpecCorreo == InitCorreo /\ [][CorreoPoliticas]_vars

InitDnssec ==
    /\ \/ dominio \in WellFormedDomains /\ net \in DnssecWorlds
       \/ dominio \in MalformedDomains /\ net \in {BaseNet}
    /\ tool = "none"
    /\ args = <<>>
    /\ out = NoReport
    /\ exc = "None"
    /\ sent = <<>>
    /\ log = <<>>
    /\ prev = None
    /\ pc = [w \in Writers |-> "idle"]
    /\ buf = [w \in Writers |-> <<>>]
    /\ probed = <<>>

SpecDnssec == InitDnssec /\ [][EstadoDnssec]_vars

InitProp ==
    /\ \/ dominio = Apex /\ net \in PropWorlds
       \/ dominio \in MalformedDomains /\ net \in {BaseNet}
    /\ tool = "none"
    /\ args = <<>>
    /\ out = NoReport
    /\ exc = "None"
    /\ sent = <<>>
    /\ log = <<>>
    /\ prev = None
    /\ pc = [w \in Writers |-> "idle"]
    /\ buf = [w \in Writers |-> <<>>]
    /\ probed = <<>>

SpecProp == InitProp /\ [][Propagacion]_vars

\* Every tool, in any order, on a world where nothing resolves and on one where
\* everything does.
FullNet ==
    [ apex |-> [ApexUp EXCEPT
                  !["MX"] = Answer(RRset(300, <<MXRec("20", Mail2), MXRec("10", Mail1)>>)),
                  !["TXT"] = Answer(RRset(300, <<TXTRec(<<Quote, "v=spf1", " -all", Quote>>)>>)),
                  !["DS"] = Answer(RRset(300, <<make_ds(Apex, Key1, "SHA256")>>)),
                  !["DNSKEY"] = Answer(RRset(300, <<Key1, Key2>>))],
      wild |-> [l \in Labels |-> AddrAnswer(<<"192.0.2.1">>)],
      dmarc |-> Answer(RRset(300, <<Dmarc2>>)),
      host |-> HostsUp,
      auth |-> [ip \in AuthIPs |-> "v1"],
      soaq |-> UdpResponse(<<SoaAnswerSet, RrsigSet("SOA")>>),
      validates |-> TRUE,
      prop |-> [ip \in ResolverIPs |->
                  [A |-> AddrAnswer(<<"192.0.2.1">>), AAAA |-> NoData,
                   NS |-> Answer(RRset(300, <<NSRec(Ns1)>>)), TXT |-> NoData]] ]

Init ==
    /\ dominio \in WellFormedDomains \cup MalformedDomains
    /\ net \in {BaseNet, FullNet}
    /\ tool = "none"
    /\ args = <<>>
    /\ out = NoReport
    /\ exc = "None"
    /\ sent = <<>>
    /\ log = <<>>
    /\ prev = None
    /\ pc = [w \in Writers |-> "idle"]
    /\ buf = [w \in Writers |-> <<>>]
    /\ probed = <<>>

Next == SaludDns \/ CorreoPoliticas \/ EstadoDnssec \/ Propagacion

Spec == Init /\ [][Next]_vars

----------------------------------------------------------------------------
(* Claims *)

Findings(t) == {i \in 1..Len(out.hallazgos) : out.hallazgos[i].tipo = t}
HasFinding(t) == Findings(t) # {}

\* the lookup found at least one record
Resolved(raw) == raw.kind = "answer" /\ raw.rr # None /\ Len(raw.rr.recs) >= 1

\* the world gives the domain no authoritative server: its NS lookup is absent, or
\* none of the NS hosts has an address
NsLookupAbsent == EmptyLabelIn(dominio) \/ ~Resolved(net.apex["NS"])
NoNsHostResolves ==
    /\ ~NsLookupAbsent
    /\ \A i \in 1..Len(net.apex["NS"].rr.recs) : \A t \in {"A", "AAAA"} :
          ~Resolved(net.host[HostOf(net.apex["NS"].rr.recs[i].target)][t])

\* C2: when discovery yields no authoritative server IP (the NS lookup is absent or no
\* NS host resolves), salud_dns sends no authoritative query, returns a report whose
\* authoritative section is empty for A, AAAA, NS and SOA, and does not raise.
C2_NoAuthServers ==
    (tool = "salud_dns" /\ (NsLookupAbsent \/ NoNsHostResolves)) =>
        /\ exc = "None"
        /\ sent = <<>>
        /\ \A t \in {"A", "AAAA", "NS", "SOA"} : out.autoritativo[t] = <<>>

C2_Witness ==
    /\ tool = "salud_dns"
    /\ NoNsHostResolves
    /\ Len(net.apex["NS"].rr.recs) = 2
    /\ sent = <<>>
    /\ out.autoritativo["NS"] = <<>>
    /\ out.recursivo["NS"] # <<>>

\* the TTLs of the apex record sets that resolved
ApexTtls ==
    IF EmptyLabelIn(dominio) THEN {}
    ELSE {net.apex[t].rr.ttl : t \in {u \in {"A", "AAAA", "NS", "SOA"} : Resolved(net.apex[u])}}

\* C3: the finding ttls_desbalanceados is emitted iff max(TTLs) >= 4 * max(1, min(TTLs))
\* over the TTLs of the apex A, AAAA, NS and SOA sets that resolved; equality fires it
\* (10 and 40 do, 10 and 39 do not); its severity is info.
C3_TtlSkewIff ==
    tool = "salud_dns" =>
        /\ HasFinding("ttls_desbalanceados") <=>
              (ApexTtls # {} /\ \E lo \in ApexTtls, hi \in ApexTtls :
                  /\ \A v \in ApexTtls : lo <= v /\ v <= hi
                  /\ IF lo < 1 THEN hi >= 4 ELSE hi >= 4 * lo)
        /\ ApexTtls = {10, 40} => HasFinding("ttls_desbalanceados")
        /\ ApexTtls = {10, 39} => ~HasFinding("ttls_desbalanceados")
        /\ \A i \in Findings("ttls_desbalanceados") : out.hallazgos[i].severidad = "info"

C3_Witness ==
    /\ tool = "salud_dns"
    /\ ApexTtls = {10, 40}
    /\ HasFinding("ttls_desbalanceados")

\* C4: the finding wildcard is emitted iff the recursive A lookup of
\* <label drawn>.<domain> returns at least one A record, whichever label was drawn.
C4_WildcardIff ==
    tool = "salud_dns" =>
        (HasFinding("wildcard") <=>
            (~EmptyLabelIn(dominio) /\ Resolved(net.wild[args.label])))

C4_Witness ==
    /\ tool = "salud_dns"
    /\ HasFinding("wildcard")
    /\ \E l \in Labels : ~Resolved(net.wild[l])

\* the MX lookup of the world found records, every one with a numeric preference
MxAllNumeric ==
    /\ ~EmptyLabelIn(dominio)
    /\ Resolved(net.apex["MX"])
    /\ \A i \in 1..Len(net.apex["MX"].rr.recs) : IsNumeric(net.apex["MX"].rr.recs[i].preference)

\* the preference an entry of the report's mx list starts with
PrefOf(entry) == CHOOSE n \in 0..MaxPreference : ToString(n) = entry[1]

\* C10 as claimed: with numeric preferences only, the mx list is strictly ascending by
\* preference (each entry's preference is smaller than the next one's).
C10_StrictlyAscending ==
    (tool = "correo_politicas" /\ MxAllNumeric) =>
        \A i \in 1..(Len(out.mx) - 1) : PrefOf(out.mx[i]) < PrefOf(out.mx[i + 1])

\* C10 as amended: with numeric preferences only, the mx list holds the MX entries in
\* ascending order of preference (no entry's preference is larger than the next
\* one's); "20 mail2" and "10 mail1" come out as "10 mail1", "20 mail2".
C10_Ascending ==
    (tool = "correo_politicas" /\ MxAllNumeric) =>
        /\ \A i \in 1..(Len(out.mx) - 1) : PrefOf(out.mx[i]) <= PrefOf(out.mx[i + 1])
        /\ Len(out.mx) = Len(net.apex["MX"].rr.recs)
        /\ Range(out.mx) = {<<r.preference, NameText(r.exchange)>> : r \in Range(net.apex["MX"].rr.recs)}
        /\ net.apex["MX"].rr.recs = <<MXRec("20", Mail2), MXRec("10", Mail1)>>
              => out.mx = << <<"10", "mail1.example.com.">>, <<"20", "mail2.example.com.">> >>

C10_Witness ==
    /\ tool = "correo_politicas"
    /\ net.apex["MX"] = Answer(RRset(300, <<MXRec("20", Mail2), MXRec("10", Mail1)>>))
    /\ out.mx = << <<"10", "mail1.example.com.">>, <<"20", "mail2.example.com.">> >>

\* C1 as claimed: whatever the domain string and whatever the queries answer, each of
\* the four tools returns a report and lets no exception escape.
C1_NoExceptionEscapes ==
    tool \in {"salud_dns", "correo_politicas", "estado_dnssec", "propagacion"} =>
        exc = "None" /\ out # NoReport

DsPresent == ~EmptyLabelIn(dominio) /\ Resolved(net.apex["DS"])
DnskeyPresent == ~EmptyLabelIn(dominio) /\ Resolved(net.apex["DNSKEY"])

\* the digest of the DS record is the digest of the key
PairMatches(key, ds) == ds = make_ds(Apex, key, ds.digest_type)
SomePairMatches ==
    \E key \in Range(net.apex["DNSKEY"].rr.recs), ds \in Range(net.apex["DS"].rr.recs) :
        PairMatches(key, ds)

\* C5 as claimed: with DS and DNSKEY both present, ds_dnskey_mismatch is emitted
\* exactly once when no (DNSKEY, DS) pair matches, and not at all when one does.
C5_MismatchExactlyOnce ==
    (tool = "estado_dnssec" /\ DsPresent /\ DnskeyPresent) =>
        Cardinality(Findings("ds_dnskey_mismatch")) = IF SomePairMatches THEN 0 ELSE 1

\* what the answer to the SOA query holds, and whether the SOA step raises
SoaInAnswer ==
    net.soaq.kind = "response" /\ \E r \in Range(net.soaq.answer) : r.rdtype = "SOA"
RrsigInAnswer ==
    /\ net.soaq.kind = "response"
    /\ \E r \in Range(net.soaq.answer) : r.rdtype = "RRSIG" /\ r.covers = "SOA"
SoaStepRaises ==
    \/ net.soaq.kind # "response"
    \/ SoaInAnswer /\ RrsigInAnswer /\ DnskeyPresent /\ ~net.validates
SoaExplained ==
    \E i \in 1..Len(out.detalles) :
        out.detalles[i].msg = "No se pudo validar SOA (faltan RRSIG/DNSKEY en respuesta autoritativa)."

\* C6: soa_signature_valid ends in one of three states: true when the SOA set, a
\* covering RRSIG and DNSKEY are present and the validation succeeds; false, with one
\* warning finding firma_soa_invalida, when the SOA step raises; null, with an
\* explanatory detail line and no firma_soa_invalida finding, when the step does not
\* raise and the RRSIG or the DNSKEY is missing.
C6_SoaThreeStates ==
    (tool = "estado_dnssec" /\ exc = "None") =>
        /\ out.soa_firmada_valida \in {"true", "false", "null"}
        /\ out.soa_firmada_valida = "true" <=>
              (~SoaStepRaises /\ SoaInAnswer /\ RrsigInAnswer /\ DnskeyPresent)
        /\ out.soa_firmada_valida = "false" <=> SoaStepRaises
        /\ SoaStepRaises =>
              /\ Cardinality(Findings("firma_soa_invalida")) = 1
              /\ \A i \in Findings("firma_soa_invalida") : out.hallazgos[i].severidad = "warning"
        /\ (~SoaStepRaises /\ (~RrsigInAnswer \/ ~DnskeyPresent)) =>
              /\ out.soa_firmada_valida = "null"
              /\ SoaExplained
              /\ ~HasFinding("firma_soa_invalida")

C6_Witness ==
    /\ tool = "estado_dnssec"
    /\ out # NoReport
    /\ out.soa_firmada_valida = "null"
    /\ SoaInAnswer /\ ~RrsigInAnswer /\ DnskeyPresent
    /\ SoaExplained

\* the DS/DNSKEY comparison raises: both sets are present and a DS record has a digest
\* type make_ds cannot compute
DsCompareRaises ==
    /\ DsPresent /\ DnskeyPresent
    /\ \E ds \in Range(net.apex["DS"].rr.recs) : ~DigestSupported(ds.digest_type)

\* C7 as claimed: an exception raised in the DS/DNSKEY comparison or in the SOA
\* validation is caught and downgraded to a warning or error finding plus a null or
\* false soa_signature_valid; none leaves estado_dnssec.
C7_ExceptionsBecomeFindings ==
    (tool = "estado_dnssec" /\ ~EmptyLabelIn(dominio) /\ (DsCompareRaises \/ SoaStepRaises)) =>
        /\ exc = "None"
        /\ \E i \in 1..Len(out.hallazgos) : out.hallazgos[i].severidad \in {"warning", "error"}
        /\ out.soa_firmada_valida \in {"null", "false"}

\* what the world's resolver ip answers for the type, as the report renders it
WorldAnswers(ip, rtype) ==
    LET raw == net.prop[ip][rtype] IN
    IF EmptyLabelIn(dominio) \/ ~Resolved(raw) THEN {}
    ELSE IF rtype = "NS" THEN {NameText(RStripDot(r.target)) : r \in Range(raw.rr.recs)}
    ELSE {r.text : r \in Range(raw.rr.recs)}

\* C8: for each type of A, AAAA, NS and each queried resolver ip, divergence[type][ip]
\* is the union of all queried resolvers' answers for the type minus the answers of ip;
\* a resolver holding every record of the union has an empty divergence.
C8_DivergenceIsUnionMinusOwn ==
    tool = "propagacion" =>
        \A rtype \in {"A", "AAAA", "NS"} : \A ip \in Range(out.resolutores) :
            LET union == UNION {WorldAnswers(r, rtype) : r \in Range(out.resolutores)}
                d == out.diferencias[rtype][ip]
            IN /\ Range(out.respuestas[ip][rtype]) = WorldAnswers(ip, rtype)
               /\ Range(d) = union \ WorldAnswers(ip, rtype)
               /\ Cardinality(Range(d)) = Len(d)
               /\ WorldAnswers(ip, rtype) = union => d = <<>>

C8_Witness ==
    /\ tool = "propagacion"
    /\ \E ip1, ip2 \in Range(out.resolutores) :
        /\ out.diferencias["A"][ip1] = <<"192.0.2.2">>
        /\ out.respuestas[ip1]["A"] = <<"192.0.2.1">>
        /\ out.diferencias["A"][ip2] = <<>>
        /\ out.respuestas[ip2]["A"] = <<"192.0.2.2", "192.0.2.1">>

----------------------------------------------------------------------------
(* correo_politicas: SPF and DMARC *)

\* the records a TXT lookup of the world found, in record order
TxtRecords(raw) == IF Resolved(raw) THEN raw.rr.recs ELSE <<>>

\* a text with one layer of surrounding double quotes removed
StripOneLayer(t) ==
    IF Len(t) >= 2 /\ t[1] = Quote /\ t[Len(t)] = Quote THEN SubSeq(t, 2, Len(t) - 1) ELSE t

\* the records whose value, one layer of quotes removed, starts with the prefix
Qualifying(recs, prefix) ==
    {i \in 1..Len(recs) : StartsWithLower(StripOneLayer(recs[i].text), prefix)}

\* C11 as claimed: spf is the first apex TXT value, in record order, that starts with
\* v=spf1 (any case) once a single layer of surrounding double quotes is stripped, and
\* it is returned with those quotes removed; spf is null with a warning sin_spf exactly
\* when no TXT value qualifies.
C11_SpfFirstSingleLayer ==
    (tool = "correo_politicas" /\ ~EmptyLabelIn(dominio)) =>
        LET recs == TxtRecords(net.apex["TXT"])
            hits == Qualifying(recs, "v=spf1")
        IN IF hits = {}
           THEN /\ out.spf = None
                /\ \E i \in Findings("sin_spf") : out.hallazgos[i].severidad = "warning"
           ELSE /\ out.spf = StripOneLayer(recs[Min(hits)].text)
                /\ ~HasFinding("sin_spf")

\* s is made of double quotes only
OnlyQuotes(s) == \A i \in 1..Len(s) : s[i] = Quote

\* v is the text t without the double quotes that surround it
IsUnquoted(v, t) ==
    /\ Len(t) >= Len(v) + 1
    /\ t[1] = Quote
    /\ SubSeq(t, 2, Len(v) + 1) = v
    /\ OnlyQuotes(SubSeq(t, Len(v) + 2, Len(t)))

\* C12: dmarc is the value of the first record of the _dmarc TXT set, in record
\* order, that starts with v=dmarc1 (any case); a warning sin_dmarc is there exactly
\* when no record does, whatever the MX and apex TXT lookups gave.
C12_DmarcFirstMatch ==
    (tool = "correo_politicas" /\ ~EmptyLabelIn(dominio)) =>
        LET recs == TxtRecords(net.dmarc)
            hits == Qualifying(recs, "v=dmarc1")
        IN /\ HasFinding("sin_dmarc") <=> hits = {}
           /\ Cardinality(Findings("sin_dmarc")) <= 1
           /\ \A i \in Findings("sin_dmarc") : out.hallazgos[i].severidad = "warning"
           /\ hits = {} => out.dmarc = None
           /\ hits # {} => out.dmarc # None /\ IsUnquoted(out.dmarc, recs[Min(hits)].text)

\* a second DMARC record follows the first, SPF and MX being found as well
C12_Witness ==
    /\ tool = "correo_politicas"
    /\ net.dmarc = Answer(RRset(300, <<Dmarc1, Dmarc2>>))
    /\ out.dmarc = <<"v=DMARC1", "; p=none">>
    /\ out.spf # None
    /\ out.mx # <<>>
    /\ ~HasFinding("sin_dmarc")

----------------------------------------------------------------------------
(* The resolver client on its own: resolve_rr, query_authoritative and
   get_authoritative_ns_ips called directly *)

\* the exceptions of the stub that derive from dns.exception.DNSException
DNSExceptions == {"NXDOMAIN", "NoAnswer", "YXDOMAIN", "Timeout", "NoNameservers", "EmptyLabel"}

\* (a variant that handles the two named exceptions only)
CaughtNamedOnly(kind) == kind \in {"NXDOMAIN", "NoAnswer"}

\* the except clauses of resolve_rr: NXDOMAIN, NoAnswer, then any DNSException
Caught(kind) == kind \in DNSExceptions

\* the exception resolve_rr lets through, "None" when there is none
ResolveEscapes(raw) == IF raw.kind = "answer" \/ Caught(raw.kind) THEN "None" ELSE raw.kind

ResolveRr ==
    \E rtype \in {"A", "NS"} :
        LET raw == StubResolve(DefaultResolver, dominio, rtype)
            res == ResolveOutcome(raw)
        IN /\ tool' = "resolve_rr"
           /\ args' = [name |-> dominio, rtype |-> rtype]
           /\ exc' = ResolveEscapes(raw)
           /\ out' = IF ResolveEscapes(raw) = "None" THEN [rrset |-> res[1], err |-> res[2]]
                     ELSE NoReport
           /\ sent' = <<>>
           /\ UNCHANGED <<dominio, net, log, prev, pc, buf, probed>>

\* dns.message.make_query(name, ...) parses the name before anything is sent
MakeQueryRaises(name) == IF EmptyLabelIn(name) THEN "EmptyLabel" ELSE "None"

\* query_authoritative as salud_dns calls it: for the domain, one of the four types
\* and one of the servers discovered for the domain
QueryAuthoritative ==
    \E t \in 1..Len(RecordTypes), ns_ip \in Range(AuthServers(dominio)) :
        /\ tool' = "query_authoritative"
        /\ args' = [name |-> dominio, rtype |-> RecordTypes[t], ns_ip |-> ns_ip]
        /\ exc' = MakeQueryRaises(dominio)
        /\ IF MakeQueryRaises(dominio) # "None"
           THEN out' = NoReport /\ sent' = <<>>
           ELSE /\ out' = [rrset |-> query_authoritative(dominio, RecordTypes[t], ns_ip)]
                /\ sent' = <<AuthQuery(dominio, RecordTypes[t], ns_ip)>>
        /\ UNCHANGED <<dominio, net, log, prev, pc, buf, probed>>

\* the recursive lookups get_authoritative_ns_ips makes, in order
NsIpLookups(domain) ==
    LET ns_rr == resolve_rr(DefaultResolver, domain, "NS")[1] IN
    <<Lookup(domain, "NS")>> \o
        (IF ~Truthy(ns_rr) THEN <<>>
         ELSE Concat(MapSeq(ns_rr.recs, LAMBDA ns :
                <<Lookup(HostOf(ns.target), "A"), Lookup(HostOf(ns.target), "AAAA")>>)))

GetAuthoritativeNsIps ==
    /\ tool' = "get_authoritative_ns_ips"
    /\ args' = [domain |-> dominio]
    /\ exc' = "None"
    /\ out' = [ips |-> get_authoritative_ns_ips(dominio)]
    /\ sent' = NsIpLookups(dominio)
    /\ UNCHANGED <<dominio, net, log, prev, pc, buf, probed>>

\* worlds that vary what the resolver does with the apex A and NS queries
ResolverFailures ==
    {NoData, NxDomain, Raises("YXDOMAIN"), Raises("Timeout"), Raises("NoNameservers")}
ResolverWorlds ==
    { [BaseNet EXCEPT !.apex = [ApexUp EXCEPT !["A"] = a, !["NS"] = ns]] :
        a \in ResolverFailures \cup {ApexUp["A"]}, ns \in ResolverFailures \cup {ApexUp["NS"]} }

\* worlds that vary the NS set and the addresses of the NS hosts
NsWorlds ==
    { [BaseNet EXCEPT
         !.apex = [ApexUp EXCEPT !["NS"] = ns],
         !.host = [HostsUp EXCEPT ![HostOf(Ns1)] = [A |-> a1, AAAA |-> b1],
                                  ![HostOf(Ns2)] = [A |-> a2, AAAA |-> b2]]] :
        ns \in NsAnswers, a1 \in Ns1A, b1 \in Ns1AAAA, a2 \in Ns2A, b2 \in Ns2AAAA }

\* worlds that vary the servers behind the addresses
UdpWorlds ==
    { [BaseNet EXCEPT !.apex = ApexUp, !.host = HostsUp, !.auth = plan] :
        plan \in AuthPlans \cup {[ip \in AuthIPs |-> "signed"]} }

ClientWorlds == ResolverWorlds \cup NsWorlds \cup UdpWorlds

InitClient ==
    /\ \/ dominio \in WellFormedDomains /\ net \in ClientWorlds
       \/ dominio \in MalformedDomains /\ net \in {BaseNet}
    /\ tool = "none"
    /\ args = <<>>
    /\ out = NoReport
    /\ exc = "None"
    /\ sent = <<>>
    /\ log = <<>>
    /\ prev = None
    /\ pc = [w \in Writers |-> "idle"]
    /\ buf = [w \in Writers |-> <<>>]
    /\ probed = <<>>

NextClient == ResolveRr \/ QueryAuthoritative \/ GetAuthoritativeNsIps

SpecClient == InitClient /\ [][NextClient]_vars

\* what the resolver did with the query of the last resolve_rr call
LastRaw == StubResolve(DefaultResolver, args.name, args.rtype)

\* C13 as claimed: the outcome of resolve_rr has exactly one of its two parts set, the
\* record set or the failure reason, never both and never neither, a no-data answer
\* included.
C13_ExactlyOneVariant ==
    tool = "resolve_rr" =>
        /\ exc = "None"
        /\ (out.rrset # None) # (out.err # <<>>)

\* the failure reason resolve_rr gives for an exception of the resolver
ReasonOf(kind) ==
    CASE kind = "NXDOMAIN" -> <<"NXDOMAIN">>
      [] kind = "NoAnswer" -> <<"NO_ANSWER">>
      [] OTHER -> <<"DNS_ERROR", kind>>

\* C14: a recursive query that fails (NXDOMAIN, a protocol error, a timeout, a network
\* error, a name that does not parse) comes back from resolve_rr as no record set plus
\* the failure reason; resolve_rr lets no exception through.
C14_FailuresBecomeAbsent ==
    tool = "resolve_rr" =>
        /\ exc = "None"
        /\ out # NoReport
        /\ LastRaw.kind # "answer" =>
              out.rrset = None /\ out.err = ReasonOf(LastRaw.kind)
        /\ LastRaw.kind = "answer" => out.rrset = LastRaw.rr

C14_Witness ==
    /\ tool = "resolve_rr"
    /\ LastRaw.kind = "Timeout"
    /\ out = [rrset |-> None, err |-> <<"DNS_ERROR", "Timeout">>]

\* what the queried server of the last query_authoritative call does with the query
LastUdp == IF args.ns_ip \in DOMAIN net.auth THEN AuthView(net.auth[args.ns_ip], args.rtype)
           ELSE UdpTimeout

WorldAddresses ==
    IF EmptyLabelIn(dominio) \/ ~Resolved(net.apex["NS"]) THEN <<>>
    ELSE Concat([i \in 1..Len(net.apex["NS"].rr.recs) |->
            LET h == HostOf(net.apex["NS"].rr.recs[i].target) IN
            Concat([t \in 1..2 |->
                LET raw == net.host[h][<<"A", "AAAA">>[t]] IN
                IF Resolved(raw) THEN [j \in 1..Len(raw.rr.recs) |-> raw.rr.recs[j].address]
                ELSE <<>>])])

\* the place of the first occurrence of x in s
FirstAt(s, x) == Min({i \in 1..Len(s) : s[i] = x})

\* C16: get_authoritative_ns_ips returns the addresses found by resolving A and AAAA
\* for each NS target, every address once, in the order of first occurrence; when the
\* NS lookup fails or is empty it returns the empty list and looks up no address.
C16_DedupFirstSeen ==
    tool = "get_authoritative_ns_ips" =>
        /\ exc = "None"
        /\ Range(out.ips) = Range(WorldAddresses)
        /\ \A i, j \in 1..Len(out.ips) :
              i < j => FirstAt(WorldAddresses, out.ips[i]) < FirstAt(WorldAddresses, out.ips[j])
        /\ (EmptyLabelIn(dominio) \/ ~Resolved(net.apex["NS"])) =>
              out.ips = <<>> /\ sent = <<Lookup(dominio, "NS")>>

\* an address both NS hosts have is listed once, where the first host put it
C16_Witness ==
    /\ tool = "get_authoritative_ns_ips"
    /\ WorldAddresses = <<"198.51.100.1", "198.51.100.2", "198.51.100.3", "2001:db8::1",
                           "198.51.100.1", "2001:db8::2">>
    /\ out.ips = <<"198.51.100.1", "198.51.100.2", "198.51.100.3", "2001:db8::1",
                    "2001:db8::2">>

----------------------------------------------------------------------------
(* The diagnostic log *)

EntryPoints == <<"salud_dns", "correo_politicas", "estado_dnssec", "propagacion">>

\* the report a tool returns for the arguments a
ReportOf(t, a) ==
    CASE t = "salud_dns" -> salud_dns(dominio, a.label)
      [] t = "correo_politicas" -> correo_politicas(dominio)
      [] t = "estado_dnssec" -> estado_dnssec(dominio)
      [] OTHER -> propagacion(dominio, a.resolutores)

\* the step is a call that came as far as its log_event
ReachesLogEvent ==
    /\ tool' \in Range(EntryPoints)
    /\ ~(tool' = "estado_dnssec" /\ EmptyLabelIn(dominio))

\* C17: a failed write of the log fails no call: whether the write fails or succeeds
\* the entry point returns the report it assembled and raises nothing; a write that
\* succeeds appends exactly one record {tool, dominio, dur_ms, out_size, ts}, a write
\* that fails leaves the file as it was.
C17_LogFailureHarmless ==
    [][ ReachesLogEvent =>
          /\ exc' = "None"
          /\ out' = ReportOf(tool', args')
          /\ \/ log' = log
             \/ /\ Len(log') = Len(log) + 1
                /\ SubSeq(log', 1, Len(log)) = log
                /\ log'[Len(log')].part = "line"
                /\ DOMAIN log'[Len(log')].event = {"tool", "dominio", "dur_ms", "out_size", "ts"}
                /\ log'[Len(log')].event.tool = tool'
                /\ log'[Len(log')].event.dominio = NameText(dominio) ]_vars

\* two calls have returned their reports and the log holds the record of the first
\* only: the write of the second failed
C17_Witness ==
    /\ tool = "correo_politicas"
    /\ exc = "None"
    /\ out # NoReport
    /\ Len(log) = 1
    /\ log[1].event.tool = "salud_dns"

\* The calls of log_event of report computations that run at the same time, each
\* for its own tool: open(LOG_PATH, "a"), the write, the close of the with block.
WriterTool(w) == EntryPoints[((w - 1) % Len(EntryPoints)) + 1]

\* open(LOG_PATH, "a") succeeds, or it raises and log_event returns
LogOpen(w) ==
    /\ pc[w] = "idle"
    /\ \/ /\ pc' = [pc EXCEPT ![w] = "open"]
          /\ buf' = [buf EXCEPT ![w] = Writes(Event(WriterTool(w), dominio))]
       \/ /\ pc' = [pc EXCEPT ![w] = "failed"]
          /\ buf' = buf
    /\ UNCHANGED <<dominio, net, tool, args, out, exc, sent, log, prev, probed>>

\* a write reaches the file: in append mode the text goes to the end of the file as
\* it is at that moment; or the write raises and log_event returns
LogWrite(w) ==
    /\ pc[w] = "open"
    /\ buf[w] # <<>>
    /\ \/ /\ log' = Append(log, Head(buf[w]))
          /\ buf' = [buf EXCEPT ![w] = Tail(buf[w])]
          /\ pc' = pc
       \/ /\ log' = log
          /\ buf' = [buf EXCEPT ![w] = <<>>]
          /\ pc' = [pc EXCEPT ![w] = "failed"]
    /\ UNCHANGED <<dominio, net, tool, args, out, exc, sent, prev, probed>>

\* the with block closes the file
LogClose(w) ==
    /\ pc[w] = "open"
    /\ buf[w] = <<>>
    /\ pc' = [pc EXCEPT ![w] = "written"]
    /\ UNCHANGED <<dominio, net, tool, args, out, exc, sent, log, prev, buf, probed>>

InitLog ==
    /\ dominio \in WellFormedDomains \cup MalformedDomains
    /\ net = BaseNet
    /\ tool = "none"
    /\ args = <<>>
    /\ out = NoReport
    /\ exc = "None"
    /\ sent = <<>>
    /\ log = <<>>
    /\ prev = None
    /\ pc = [w \in Writers |-> "idle"]
    /\ buf = [w \in Writers |-> <<>>]
    /\ probed = <<>>

NextLog == \E w \in Writers : LogOpen(w) \/ LogWrite(w) \/ LogClose(w)

SpecLog == InitLog /\ [][NextLog]_vars

\* the file reads as whole records: every text in it is a whole line, or a JSON
\* text directly followed by its own newline
WholeRecords(f) ==
    \A i \in 1..Len(f) :
        \/ f[i].part = "line"
        \/ f[i].part = "json" /\ i < Len(f) /\ f[i + 1] = [f[i] EXCEPT !.part = "newline"]
        \/ f[i].part = "newline" /\ i > 1 /\ f[i - 1] = [f[i] EXCEPT !.part = "json"]

\* C18: when several calls of log_event append at the same time, in every
\* interleaving the file is a sequence of whole records, one for each call whose
\* write succeeded; no record is cut by another.
C18_AppendsAreWhole ==
    (\A w \in Writers : pc[w] \in {"idle", "written", "failed"}) =>
        /\ WholeRecords(log)
        /\ \A w \in Writers :
              pc[w] = "written" <=>
                  \E i \in 1..Len(log) : log[i].event.tool = WriterTool(w) /\ log[i].part = "line"
        /\ Len(log) = Cardinality({w \in Writers : pc[w] = "written"})

\* two calls ran at the same time, the one that opened the file first wrote last
C18_Witness ==
    /\ pc[1] = "written" /\ pc[2] = "written"
    /\ Len(log) = 2
    /\ log[1].event.tool = WriterTool(2)
    /\ log[2].event.tool = WriterTool(1)

----------------------------------------------------------------------------
(* propagacion: the resolvers queried *)

\* what the world has one resolver answer for a type, as the report lists it
WorldList(ip, rtype) ==
    LET raw == net.prop[ip][rtype] IN
    IF EmptyLabelIn(dominio) \/ ~Resolved(raw) THEN <<>>
    ELSE IF rtype = "NS"
         THEN [i \in 1..Len(raw.rr.recs) |-> NameText(RStripDot(raw.rr.recs[i].target))]
    ELSE [i \in 1..Len(raw.rr.recs) |-> raw.rr.recs[i].text]

\* every lookup through the resolver fails
ResolverFails(ip) ==
    EmptyLabelIn(dominio) \/ \A t \in {"A", "AAAA", "NS", "TXT"} : net.prop[ip][t].kind # "answer"

\* C19: propagacion queries the resolvers of the list it is given, and 1.1.1.1,
\* 8.8.8.8 and 9.9.9.9 when the list is missing or empty; what is recorded for a
\* resolver is what that resolver answered, whatever the other resolvers did, and
\* a resolver whose queries fail has empty answers.
C19_ResolversQueried ==
    tool = "propagacion" =>
        LET given == args.resolutores
            used == IF given = None \/ given.list = <<>>
                    THEN <<"1.1.1.1", "8.8.8.8", "9.9.9.9">> ELSE given.list
        IN /\ out.resolutores = used
           /\ DOMAIN out.respuestas = Range(used)
           /\ Len(sent) = 4 * Len(used)
           /\ \A i \in 1..Len(used) : \A k \in 1..4 :
                 /\ sent[4 * (i - 1) + k].srv = used[i]
                 /\ sent[4 * (i - 1) + k].rtype = <<"A", "AAAA", "NS", "TXT">>[k]
           /\ \A ip \in Range(used) :
                 /\ \A t \in {"A", "AAAA", "NS"} : out.respuestas[ip][t] = WorldList(ip, t)
                 /\ ResolverFails(ip) =>
                       out.respuestas[ip] = [A |-> <<>>, AAAA |-> <<>>, NS |-> <<>>, TXT_sample |-> <<>>]

\* the default list is used for an empty list; the A query times out at 1.1.1.1,
\* which has no A answers, and 8.8.8.8 keeps its own
C19_Witness ==
    /\ tool = "propagacion"
    /\ args.resolutores = [list |-> <<>>]
    /\ out.resolutores = <<"1.1.1.1", "8.8.8.8", "9.9.9.9">>
    /\ net.prop["1.1.1.1"]["A"] = Raises("Timeout")
    /\ out.respuestas["1.1.1.1"]["A"] = <<>>
    /\ out.respuestas["8.8.8.8"]["A"] = <<"192.0.2.2", "192.0.2.1">>

----------------------------------------------------------------------------
(* salud_dns: the authoritative fan-out *)

\* the first four distinct addresses of the discovery, by first occurrence
FirstFour ==
    {x \in Range(WorldAddresses) :
        Cardinality({y \in Range(WorldAddresses) :
                        FirstAt(WorldAddresses, y) < FirstAt(WorldAddresses, x)}) < 4}

\* the texts of the record set a server answers with for a type
AuthTexts(ip, rtype) ==
    LET resp == AuthView(net.auth[ip], rtype) IN
    IF resp.kind = "response" /\ Len(resp.answer) >= 1
    THEN {resp.answer[1].recs[i].text : i \in 1..Len(resp.answer[1].recs)}
    ELSE {}

\* C20: salud_dns sends its authoritative queries to the first 4 discovered server
\* addresses and to no other, one query per server and type (at most 16 per report);
\* for each type the authoritative section is the union of the texts those servers
\* answered, sorted and without duplicates.
C20_AuthFanOut ==
    tool = "salud_dns" =>
        /\ Len(sent) <= 16
        /\ {sent[i].to : i \in 1..Len(sent)} = FirstFour
        /\ \A ip \in FirstFour : \A t \in Range(RecordTypes) :
              Cardinality({i \in 1..Len(sent) : sent[i].to = ip /\ sent[i].rtype = t}) = 1
        /\ Len(sent) = 4 * Cardinality(FirstFour)
        /\ \A t \in Range(RecordTypes) :
              LET section == out.autoritativo[t] IN
              /\ Range(section) = UNION {AuthTexts(ip, t) : ip \in FirstFour}
              /\ \A i \in 1..(Len(section) - 1) : TextRank(section[i]) < TextRank(section[i + 1])

\* six addresses are discovered, four are queried, and the servers disagree
C20_Witness ==
    /\ tool = "salud_dns"
    /\ Cardinality(Range(WorldAddresses)) = 6
    /\ Len(sent) = 16
    /\ out.autoritativo["A"] = <<"192.0.2.1", "192.0.2.2">>
    /\ \E ip \in FirstFour : AuthTexts(ip, "A") = {"192.0.2.2"}

----------------------------------------------------------------------------
(* The dangling CNAME heuristic *)

\* what the world answers for the apex CNAME and for the host the CNAME points to
WorldCname == IF "CNAME" \in DOMAIN net.apex THEN net.apex["CNAME"] ELSE NoData
CnameAtApex == ~EmptyLabelIn(dominio) /\ Resolved(WorldCname)
CnameTarget == HostOf(WorldCname.rr.recs[1].target)
TargetResolves(rtype) ==
    /\ CnameTarget \in DOMAIN net.host
    /\ rtype \in DOMAIN net.host[CnameTarget]
    /\ Resolved(net.host[CnameTarget][rtype])

\* C21: salud_dns emits cname_colgante, with severity error, iff the apex has a CNAME
\* and neither the A nor the AAAA lookup of its target resolves; when the apex has no
\* CNAME, no lookup of a target is made and the finding is not emitted.
C21_CnameDanglingIff ==
    tool = "salud_dns" =>
        /\ HasFinding("cname_colgante") <=>
              (CnameAtApex /\ ~TargetResolves("A") /\ ~TargetResolves("AAAA"))
        /\ \A i \in Findings("cname_colgante") : out.hallazgos[i].severidad = "error"
        /\ CnameAtApex =>
              probed = <<Lookup(CnameTarget, "A"), Lookup(CnameTarget, "AAAA")>>
        /\ ~CnameAtApex => probed = <<>> /\ ~HasFinding("cname_colgante")

\* a CNAME whose target has neither address is reported, after both lookups were made
C21_Witness ==
    /\ tool = "salud_dns"
    /\ CnameAtApex
    /\ Len(probed) = 2
    /\ HasFinding("cname_colgante")

----------------------------------------------------------------------------
(* The DNSKEY step of estado_dnssec *)

\* the DNSKEY records the world publishes at the apex
WorldKeys == IF DnskeyPresent THEN net.apex["DNSKEY"].rr.recs ELSE <<>>

\* C22: in the report of estado_dnssec, dnskey_algoritmos is the ascending,
\* duplicate-free list of the algorithm numbers of the DNSKEY records the lookup
\* returned (empty when there are none), and the error finding sin_dnskey is emitted
\* iff the DNSKEY lookup returned no record set.
C22_DnskeyAlgorithms ==
    (tool = "estado_dnssec" /\ out # NoReport) =>
        LET algos == out.dnskey_algoritmos IN
        /\ Range(algos) = {WorldKeys[i].algorithm : i \in 1..Len(WorldKeys)}
        /\ \A i \in 1..(Len(algos) - 1) : algos[i] < algos[i + 1]
        /\ HasFinding("sin_dnskey") <=> ~DnskeyPresent
        /\ Cardinality(Findings("sin_dnskey")) <= 1
        /\ \A i \in Findings("sin_dnskey") : out.hallazgos[i].severidad = "error"

\* keys published as algorithm 13 before algorithm 8 are listed as 8, 13
C22_Witness ==
    /\ tool = "estado_dnssec"
    /\ out # NoReport
    /\ Len(WorldKeys) = 2
    /\ WorldKeys[1].algorithm > WorldKeys[2].algorithm
    /\ out.dnskey_algoritmos = <<8, 13>>

----------------------------------------------------------------------------
(* The MX check of correo_politicas *)

\* the MX lookup of the world found at least one record
MxPresent == ~EmptyLabelIn(dominio) /\ Resolved(net.apex["MX"])

\* C23: correo_politicas emits the warning sin_mx iff no MX record exists; the mx list
\* of that report is empty, and sin_mx stands before any sin_spf or sin_dmarc finding.
C23_SinMxFirst ==
    tool = "correo_politicas" =>
        /\ HasFinding("sin_mx") <=> ~MxPresent
        /\ Cardinality(Findings("sin_mx")) <= 1
        /\ \A i \in Findings("sin_mx") : out.hallazgos[i].severidad = "warning"
        /\ ~MxPresent => out.mx = <<>>
        /\ \A i \in Findings("sin_mx") :
              \A j \in Findings("sin_spf") \cup Findings("sin_dmarc") : i < j

\* a domain without MX, SPF and DMARC: three findings, sin_mx the first
C23_Witness ==
    /\ tool = "correo_politicas"
    /\ ~MxPresent
    /\ Len(out.hallazgos) = 3
    /\ out.hallazgos[1].tipo = "sin_mx"
    /\ out.mx = <<>>

\* the MX lookup found records and one of them has a preference that is no number
MxSomeNonNumeric ==
    /\ MxPresent
    /\ \E i \in 1..Len(net.apex["MX"].rr.recs) : ~IsNumeric(net.apex["MX"].rr.recs[i].preference)

\* C24: when an MX entry has a non-numeric preference, correo_politicas does not
\* abort: the mx list is every MX entry in the order the lookup gave them, unsorted,
\* and the SPF and DMARC checks still run.
C24_SortFallback ==
    (tool = "correo_politicas" /\ MxSomeNonNumeric) =>
        /\ exc = "None" /\ out # NoReport
        /\ out.mx = [i \in 1..Len(net.apex["MX"].rr.recs) |->
                        <<net.apex["MX"].rr.recs[i].preference,
                          NameText(net.apex["MX"].rr.recs[i].exchange)>>]
        /\ ~HasFinding("sin_mx")
        /\ LET spf == Qualifying(TxtRecords(net.apex["TXT"]), "v=spf1")
               dmarc == Qualifying(TxtRecords(net.dmarc), "v=dmarc1")
           IN /\ HasFinding("sin_spf") <=> spf = {}
              /\ out.spf = None <=> spf = {}
              /\ HasFinding("sin_dmarc") <=> dmarc = {}
              /\ out.dmarc = None <=> dmarc = {}

\* "20 mail2" before "pri mail1" stays in that order, and SPF and DMARC are reported
C24_Witness ==
    /\ tool = "correo_politicas"
    /\ MxSomeNonNumeric
    /\ net.apex["MX"].rr.recs = <<MXRec("20", Mail2), MXRec("pri", Mail1)>>
    /\ out.mx = << <<"20", "mail2.example.com.">>, <<"pri", "mail1.example.com.">> >>
    /\ out.spf # None
    /\ out.dmarc # None

----------------------------------------------------------------------------
(* Two report computations running at the same time *)

\* the two calls in flight; in this specification sent lists the calls in the order
\* their steps ran
Calls == {1, 2}

\* (a variant where the locals are module-level: every call works on the same frame)
SharedFrame(c) == 1

\* hall, respuestas, diffs and the other locals live in the frame of their own call
Frame(c) == c

\* the frame of a call that has not started
EmptyFrame ==
    [ hall |-> <<>>, recursivo |-> <<>>, auth |-> <<>>,
      resolutores |-> <<>>, respuestas |-> EmptyRespuestas, i |-> 0, diffs |-> <<>> ]

\* salud_dns, first lines: hall = [] and the lookups at the apex
SaludApex(c) ==
    /\ pc[c] = "ready"
    /\ args[c].tool = "salud_dns"
    /\ LET domain == args[c].dominio IN
       buf' = [buf EXCEPT ![Frame(c)] =
                [EmptyFrame EXCEPT !.recursivo =
                    [ A |-> to_str_list(resolve_rr(DefaultResolver, domain, "A")[1]),
                      AAAA |-> to_str_list(resolve_rr(DefaultResolver, domain, "AAAA")[1]),
                      NS |-> TargetTexts(resolve_rr(DefaultResolver, domain, "NS")[1]),
                      SOA |-> to_str_list(resolve_rr(DefaultResolver, domain, "SOA")[1]) ]]]
    /\ pc' = [pc EXCEPT ![c] = "auth"]
    /\ sent' = Append(sent, c)
    /\ UNCHANGED <<dominio, net, tool, args, out, exc, log, prev, probed>>

\* the authoritative section
SaludAuth(c) ==
    /\ pc[c] = "auth"
    /\ buf' = [buf EXCEPT ![Frame(c)].auth =
                [t \in Range(RecordTypes) |-> AuthSection(args[c].dominio, t)]]
    /\ pc' = [pc EXCEPT ![c] = "heuristics"]
    /\ sent' = Append(sent, c)
    /\ UNCHANGED <<dominio, net, tool, args, out, exc, log, prev, probed>>

\* the three heuristics, each appending to hall (one step per heuristic)
SaludHeuristic(c) ==
    /\ pc[c] \in {"heuristics", "ttl", "cname"}
    /\ \E label \in Labels :
        LET domain == args[c].dominio
            found == CASE pc[c] = "heuristics" -> WildcardFindings(domain, label)
                       [] pc[c] = "ttl" -> TtlFindings(domain)
                       [] pc[c] = "cname" -> CnameFindings(domain)
        IN buf' = [buf EXCEPT ![Frame(c)].hall = buf[Frame(c)].hall \o found]
    /\ pc' = [pc EXCEPT ![c] = CASE pc[c] = "heuristics" -> "ttl"
                                 [] pc[c] = "ttl" -> "cname"
                                 [] pc[c] = "cname" -> "return"]
    /\ sent' = Append(sent, c)
    /\ UNCHANGED <<dominio, net, tool, args, out, exc, log, prev, probed>>

\* propagacion, first lines: the default list, respuestas = {}
PropBegin(c) ==
    /\ pc[c] = "ready"
    /\ args[c].tool = "propagacion"
    /\ buf' = [buf EXCEPT ![Frame(c)] =
                [EmptyFrame EXCEPT !.resolutores = EffectiveResolutores(args[c].resolutores),
                                   !.i = 1]]
    /\ pc' = [pc EXCEPT ![c] = "loop"]
    /\ sent' = Append(sent, c)
    /\ UNCHANGED <<dominio, net, tool, args, out, exc, log, prev, probed>>

\* one turn of the loop over the resolvers: respuestas[ip] = {...}
PropAsk(c) ==
    /\ pc[c] = "loop"
    /\ LET fr == buf[Frame(c)] IN
       /\ fr.i \in 1..Len(fr.resolutores)
       /\ LET ip == fr.resolutores[fr.i] IN
          buf' = [buf EXCEPT ![Frame(c)] =
                   [fr EXCEPT !.i = fr.i + 1,
                              !.respuestas =
                                 [x \in DOMAIN fr.respuestas \cup {ip} |->
                                     IF x = ip THEN RespuestasOf(ip, args[c].dominio)
                                     ELSE fr.respuestas[x]]]]
    /\ sent' = Append(sent, c)
    /\ UNCHANGED <<dominio, net, tool, args, out, exc, log, prev, pc, probed>>

\* the loop is over: the differences by type
PropDiffs(c) ==
    /\ pc[c] = "loop"
    /\ LET fr == buf[Frame(c)] IN
       /\ fr.i \notin 1..Len(fr.resolutores)
       /\ buf' = [buf EXCEPT ![Frame(c)].diffs =
                    [ A |-> Diferencias(fr.respuestas, "A"),
                      AAAA |-> Diferencias(fr.respuestas, "AAAA"),
                      NS |-> Diferencias(fr.respuestas, "NS") ]]
    /\ pc' = [pc EXCEPT ![c] = "return"]
    /\ sent' = Append(sent, c)
    /\ UNCHANGED <<dominio, net, tool, args, out, exc, log, prev, probed>>

\* the report is built from the locals, the event is logged and the report returned
ConcReturn(c) ==
    /\ pc[c] = "return"
    /\ LET fr == buf[Frame(c)]
           name == NameText(args[c].dominio)
       IN out' = [out EXCEPT ![c] =
                    IF args[c].tool = "salud_dns"
                    THEN [ dominio |-> name, recursivo |-> fr.recursivo,
                           autoritativo |-> fr.auth, hallazgos |-> fr.hall ]
                    ELSE [ dominio |-> name, resolutores |-> fr.resolutores,
                           respuestas |-> fr.respuestas, diferencias |-> fr.diffs ]]
    /\ \E wrote \in BOOLEAN : log' = log_event(log, args[c].tool, args[c].dominio, wrote)
    /\ pc' = [pc EXCEPT ![c] = "done"]
    /\ sent' = Append(sent, c)
    /\ UNCHANGED <<dominio, net, tool, args, exc, prev, buf, probed>>

\* a world where the apex has a CNAME whose target does not resolve
DanglingNet ==
    [FullNet EXCEPT !.apex["CNAME"] = Answer(RRset(300, <<CNAMERec(Cdn)>>)),
                    !.host[HostOf(Cdn)] = [A |-> NxDomain, AAAA |-> NxDomain],
                    !.prop["8.8.8.8"]["A"] = AddrAnswer(<<"192.0.2.2">>)]

\* the two calls are for different domains; each is one of the two tools
ConcDomains == <<Apex, HostOf(Ns1)>>
InitConc ==
    /\ dominio = Apex
    /\ net = DanglingNet
    /\ tool = "none"
    /\ \E tools \in [Calls -> {"salud_dns", "propagacion"}] :
          args = [c \in Calls |->
                    [ tool |-> tools[c], dominio |-> ConcDomains[c],
                      resolutores |-> IF tools[c] = "salud_dns" THEN None
                                      ELSE [list |-> <<"9.9.9.9", "8.8.8.8">>] ]]
    /\ out = [c \in Calls |-> NoReport]
    /\ exc = "None"
    /\ sent = <<>>
    /\ log = <<>>
    /\ prev = None
    /\ pc = [c \in Calls |-> "ready"]
    /\ buf = [c \in Calls |-> EmptyFrame]
    /\ probed = <<>>

NextConc ==
    \E c \in Calls :
        \/ SaludApex(c) \/ SaludAuth(c) \/ SaludHeuristic(c)
        \/ PropBegin(c) \/ PropAsk(c) \/ PropDiffs(c)
        \/ ConcReturn(c)

SpecConc == InitConc /\ [][NextConc]_vars

\* the reports the call can return when it runs alone in the same world
AloneReports(c) ==
    IF args[c].tool = "salud_dns"
    THEN {salud_dns(args[c].dominio, label) : label \in Labels}
    ELSE {propagacion(args[c].dominio, args[c].resolutores)}

\* C25: two report computations for different domains that run at the same time
\* share nothing but the log: under every interleaving of their steps, each returns a
\* report it returns when run alone against the same answers.
C25_NoInterference ==
    \A c \in Calls : pc[c] = "done" =>
        /\ out[c] \in AloneReports(c)
        /\ \A i \in 1..Len(log) : log[i].part = "line"

\* both calls have returned, their steps having alternated, and the reports differ
C25_Witness ==
    /\ \A c \in Calls : pc[c] = "done"
    /\ \A i \in 1..(Len(sent) - 1) : sent[i] # sent[i + 1]
    /\ out[1] # out[2]
    /\ args[1].tool = "salud_dns" /\ args[2].tool = "salud_dns"
    /\ Len(out[1].hallazgos) = 2
    /\ Len(log) = 2

----------------------------------------------------------------------------
(* The TTL heuristic on a single record set *)

\* the apex record types, of the four compared, whose lookup found records
ResolvedTypes ==
    IF EmptyLabelIn(dominio) THEN {}
    ELSE {t \in {"A", "AAAA", "NS", "SOA"} : Resolved(net.apex[t])}

\* C26: salud_dns never emits ttls_desbalanceados when only one of the apex A, AAAA,
\* NS and SOA sets resolved (one TTL t never satisfies t >= 4 * max(1, t), t = 0
\* included), nor when none of them resolved.
C26_SingleTtlNeverSkewed ==
    (tool = "salud_dns" /\ Cardinality(ResolvedTypes) <= 1) =>
        ~HasFinding("ttls_desbalanceados")

\* only one set resolved, with TTL 0, and the report has no such finding
C26_Witness ==
    /\ tool = "salud_dns"
    /\ \E t \in ResolvedTypes : ResolvedTypes = {t} /\ net.apex[t].rr.ttl = 0
    /\ ~HasFinding("ttls_desbalanceados")

----------------------------------------------------------------------------
(* propagacion: the keys of the report *)

\* the resolver list the call was given, the default list standing in for a missing
\* or empty one
GivenList ==
    IF args.resolutores = None \/ args.resolutores.list = <<>>
    THEN <<"1.1.1.1", "8.8.8.8", "9.9.9.9">>
    ELSE args.resolutores.list

\* C27: for any resolver list, one with repeated addresses included, the keys of
\* respuestas are the distinct addresses of the list; for each of A, AAAA and NS the
\* keys of diferencias[type] are the keys of respuestas; diferencias has no entry
\* for TXT.
C27_ReportKeys ==
    tool = "propagacion" =>
        /\ DOMAIN out.respuestas = {GivenList[i] : i \in 1..Len(GivenList)}
        /\ DOMAIN out.diferencias = {"A", "AAAA", "NS"}
        /\ \A t \in {"A", "AAAA", "NS"} : DOMAIN out.diferencias[t] = DOMAIN out.respuestas
        /\ \A ip \in DOMAIN out.respuestas :
              DOMAIN out.respuestas[ip] = {"A", "AAAA", "NS", "TXT_sample"}

\* 8.8.8.8 is listed twice: three list entries, two keys, one of them with nothing missing
C27_Witness ==
    /\ tool = "propagacion"
    /\ args.resolutores = [list |-> <<"8.8.8.8", "8.8.8.8", "1.1.1.1">>]
    /\ Len(out.resolutores) = 3
    /\ DOMAIN out.respuestas = {"1.1.1.1", "8.8.8.8"}
    /\ DOMAIN out.diferencias["A"] = {"1.1.1.1", "8.8.8.8"}
    /\ \E ip \in DOMAIN out.respuestas : out.diferencias["A"][ip] = <<>>
    /\ \E ip \in DOMAIN out.respuestas : out.diferencias["A"][ip] # <<>>

----------------------------------------------------------------------------
(* estado_dnssec: the fields and the findings of one report agree *)

\* C28: in a report of estado_dnssec, a finding ds_dnskey_mismatch implies that
\* tiene_ds_en_padre is true and that there is no sin_dnskey; soa_firmada_valida =
\* true implies that there is neither sin_dnskey nor firma_soa_invalida; and
\* soa_firmada_valida = false holds iff there is exactly one firma_soa_invalida.
C28_ReportConsistent ==
    (tool = "estado_dnssec" /\ out # NoReport) =>
        /\ HasFinding("ds_dnskey_mismatch") =>
              out.tiene_ds_en_padre /\ ~HasFinding("sin_dnskey")
        /\ out.soa_firmada_valida = "true" =>
              ~HasFinding("sin_dnskey") /\ ~HasFinding("firma_soa_invalida")
        /\ out.soa_firmada_valida = "false" <=>
              Cardinality(Findings("firma_soa_invalida")) = 1
        /\ Cardinality(Findings("firma_soa_invalida")) <= 1

\* a broken chain and a SOA signature that does not validate, in one report
C28_Witness ==
    /\ tool = "estado_dnssec"
    /\ out # NoReport
    /\ HasFinding("ds_dnskey_mismatch")
    /\ out.tiene_ds_en_padre
    /\ out.soa_firmada_valida = "false"
    /\ Cardinality(Findings("firma_soa_invalida")) = 1

----------------------------------------------------------------------------
(* host.py: call_remote_tool *)

\* JSON values, as far as call_remote_tool looks into them
JAbsent == [type |-> "absent"]
JText(s) == [type |-> "string", text |-> s]
JNumber == [type |-> "number"]
JArray(items) == [type |-> "array", items |-> items]
JContent(content) == [type |-> "object", content |-> content]
JRpc(error, result) == [type |-> "object", error |-> error, result |-> result]
JItem(text) == [type |-> "object", text |-> text]

\* one data line of a body: it parses as JSON (to data) or it does not
Payload(valid, data) == [valid |-> valid, data |-> data]

\* what requests.post gives: it raises, or a response with status, content type and body
PostRaises(e) == [kind |-> "raise", exc |-> e, status |-> 0, ct |-> "", payloads |-> <<>>]
HttpResponse(status, ct, payloads) ==
    [kind |-> "response", exc |-> "None", status |-> status, ct |-> ct, payloads |-> payloads]

\* the request mcp_request posts for tools/call
ToolsCall(tool_name, arguments) ==
    [method |-> "tools/call", params |-> [name |-> tool_name, arguments |-> arguments]]

\* _parse_mcp_response: {"ok": True, "data": ...} or {"ok": False, "error": ...}
ParseMcpResponse(resp) ==
    IF resp.ct = "application/json" THEN
        IF Len(resp.payloads) = 1 /\ resp.payloads[1].valid
        THEN [ok |-> TRUE, data |-> resp.payloads[1].data, error |-> ""]
        ELSE [ok |-> FALSE, data |-> JAbsent, error |-> "No JSON valido"]
    ELSE IF resp.ct = "text/event-stream" THEN
        LET hits == {i \in 1..Len(resp.payloads) : resp.payloads[i].valid} IN
        IF hits # {}
        THEN [ok |-> TRUE, data |-> resp.payloads[Max(hits)].data, error |-> ""]
        ELSE [ok |-> FALSE, data |-> JAbsent, error |-> "No encontre JSON en SSE"]
    ELSE [ok |-> FALSE, data |-> JAbsent, error |-> "Content-Type inesperado"]

\* the dicts call_remote_tool returns
RemoteError(msg, detail) == [error |-> [msg |-> msg, detail |-> detail]]
RemoteResult(how, value) == [result |-> [how |-> how, value |-> value]]

\* except requests.exceptions.Timeout / except Exception
OnRemoteException(e) ==
    IF e = "Timeout" THEN RemoteError("Timeout al conectar con el servidor remoto", "")
    ELSE RemoteError("Error de conexion", e)

\* (a variant that repeats the request after any status other than 200)
ShouldRetryAnyFailure(status) == status # 200

\* if resp.status_code in (429, 503): one more request
ShouldRetry(status) == status \in {429, 503}

\* the lines after the requests: the dict made of the last response
RemoteReturn(resp) ==
    IF resp.status # 200 THEN RemoteError("HTTP", ToString(resp.status))
    ELSE LET parsed == ParseMcpResponse(resp) IN
    IF ~parsed.ok THEN RemoteError(parsed.error, "")
    ELSE LET data == parsed.data IN
    IF data.type = "number" THEN OnRemoteException("TypeError")
    ELSE IF data.type = "array" THEN OnRemoteException("AttributeError")
    ELSE IF data.error # JAbsent THEN RemoteError("rpc", data.error)
    ELSE LET result == data.result IN
    IF result.type = "object" /\ result.content # JAbsent THEN
        LET content == result.content IN
        IF content.type = "array" /\ content.items # <<>>
             /\ content.items[1].type = "object" /\ content.items[1].text # JAbsent
        THEN RemoteResult("text", content.items[1].text)
        ELSE RemoteResult("str", content)
    ELSE IF result.type = "string" THEN RemoteResult("text", result)
    ELSE IF result = JAbsent THEN RemoteResult("json", JContent(JAbsent))
    ELSE RemoteResult("json", result)

\* call_remote_tool against a server that gives replies[i] to the i-th request:
\* the requests sent, the dict returned and the exception that escapes
call_remote_tool(tool_name, arguments, replies) ==
    LET first == replies[1]
        again == first.kind = "response" /\ ShouldRetry(first.status)
        resp == IF again THEN replies[2] ELSE first
    IN [ sent |-> IF again THEN <<ToolsCall(tool_name, arguments), ToolsCall(tool_name, arguments)>>
                  ELSE <<ToolsCall(tool_name, arguments)>>,
         ret |-> IF resp.kind = "raise" THEN OnRemoteException(resp.exc) ELSE RemoteReturn(resp),
         exc |-> "None" ]

\* the remote tools and their arguments, as call_remote_echo and the others pass them
RemoteCalls ==
    { [name |-> "echo", arguments |-> [texto |-> "hola"]],
      [name |-> "morse", arguments |-> [texto |-> "SOS"]],
      [name |-> "morse", arguments |-> [texto |-> "hola"]] }

CallRemoteTool ==
    /\ \E call \in RemoteCalls :
        LET r == call_remote_tool(call.name, call.arguments, net.replies) IN
        /\ tool' = "call_remote_tool"
        /\ args' = call
        /\ sent' = r.sent
        /\ out' = r.ret
        /\ exc' = r.exc
    /\ UNCHANGED <<dominio, net, log, prev, pc, buf, probed>>

\* the replies of the remote server
RpcOk == Payload(TRUE, JRpc(JAbsent, JContent(JArray(<<JItem(JText("... --- ..."))>>))))
Broken == Payload(FALSE, JAbsent)
Replies ==
    { PostRaises("Timeout"), PostRaises("ConnectionError"),
      HttpResponse(429, "application/json", <<RpcOk>>),
      HttpResponse(503, "text/html", <<>>),
      HttpResponse(500, "application/json", <<RpcOk>>),
      HttpResponse(200, "application/json", <<RpcOk>>),
      HttpResponse(200, "application/json", <<Broken>>),
      HttpResponse(200, "application/json", <<Payload(TRUE, JRpc(JText("boom"), JAbsent))>>),
      HttpResponse(200, "application/json", <<Payload(TRUE, JRpc(JAbsent, JText("plain")))>>),
      HttpResponse(200, "application/json", <<Payload(TRUE, JRpc(JAbsent, JAbsent))>>),
      HttpResponse(200, "application/json", <<Payload(TRUE, JRpc(JAbsent, JContent(JArray(<<>>))))>>),
      HttpResponse(200, "application/json",
                   <<Payload(TRUE, JRpc(JAbsent, JContent(JArray(<<JItem(JAbsent)>>))))>>),
      HttpResponse(200, "application/json", <<Payload(TRUE, JArray(<<>>))>>),
      HttpResponse(200, "application/json", <<Payload(TRUE, JNumber)>>),
      HttpResponse(200, "text/event-stream", <<RpcOk, Broken>>),
      HttpResponse(200, "text/event-stream", <<Broken>>),
      HttpResponse(200, "text/html", <<>>) }

InitRemote ==
    /\ dominio = Apex
    /\ net \in [replies : Replies \X Replies]
    /\ tool = "none"
    /\ args = <<>>
    /\ out = NoReport
    /\ exc = "None"
    /\ sent = <<>>
    /\ log = <<>>
    /\ prev = None
    /\ pc = [w \in Writers |-> "idle"]
    /\ buf = [w \in Writers |-> <<>>]
    /\ probed = <<>>

NextRemote == CallRemoteTool

SpecRemote == InitRemote /\ [][NextRemote]_vars

\* the response the returned dict is made of, and what is wrong with it
FinalReply == IF Len(sent) = 2 THEN net.replies[2] ELSE net.replies[1]
FinalFails ==
    \/ FinalReply.kind = "raise"
    \/ FinalReply.status # 200
    \/ ~ParseMcpResponse(FinalReply).ok
    \/ ParseMcpResponse(FinalReply).data.type = "object"
          /\ ParseMcpResponse(FinalReply).data.error # JAbsent

\* C29: call_remote_tool sends at most two tools/call requests per invocation, the
\* second only when the first response has status 429 or 503, and both with the tool
\* name and the arguments of the call; it never raises, and it returns a dict with
\* exactly one of the keys error and result: error when the final status is not 200,
\* the body does not parse, the body is a JSON-RPC error or the request timed out or
\* failed to connect, and result only when none of these is the case.
C29_AtMostOneRetry ==
    tool = "call_remote_tool" =>
        /\ Len(sent) \in {1, 2}
        /\ Len(sent) = 2 <=>
              (net.replies[1].kind = "response" /\ net.replies[1].status \in {429, 503})
        /\ \A i \in 1..Len(sent) :
              /\ sent[i].method = "tools/call"
              /\ sent[i].params = [name |-> args.name, arguments |-> args.arguments]
        /\ exc = "None"
        /\ DOMAIN out \in {{"error"}, {"result"}}
        /\ FinalFails => DOMAIN out = {"error"}
        /\ DOMAIN out = {"result"} => ~FinalFails

\* the first reply is a 429, the request is repeated once and the second reply gives
\* the result
C29_Witness ==
    /\ tool = "call_remote_tool"
    /\ net.replies[1].kind = "response" /\ net.replies[1].status = 429
    /\ Len(sent) = 2
    /\ sent[1] = sent[2]
    /\ DOMAIN out = {"result"}

----------------------------------------------------------------------------
(* host.py: SimpleChatbot.process_tool_calls *)

\* A text is the list of its characters.  Two of the patterns, in the order of the
\* list: the tag of ping ("[DNS: ping]") comes before the tag of status
\* ("[GIT: status]"); each tag is kept as three characters.
Patterns == << <<"[", "P", "]">>, <<"[", "S", "]">> >>

\* re.finditer(pattern, text): the offsets (from 0) at which the tag starts
Finditer(k, text) ==
    {i \in 0..(Len(text) - Len(Patterns[k])) : SubSeq(text, i + 1, i + Len(Patterns[k])) = Patterns[k]}

\* s[:n] and s[n:], an offset past the end standing for the end
SliceTo(s, n) == SubSeq(s, 1, Min({n, Len(s)}))
SliceFrom(s, n) == SubSeq(s, Min({n, Len(s)}) + 1, Len(s))

\* what the handler of a tag gives: a dict with error, a dict with result, another
\* dict, or an exception (of the handler or of log_interaction)
HandlerOutcomes == {"error", "result", "report", "raises"}

\* result_str / error_str: the text put in the place of the tag (k tells the tool)
FormatResult(k, outcome) ==
    CASE outcome = "error" -> <<"\n", "X", ToString(k), "\n">>
      [] outcome = "result" -> <<"\n", "V", ToString(k), "\n">>
      [] outcome = "report" -> <<"\n", "V", "\n", ToString(k), "\n">>
      [] outcome = "raises" -> <<"\n", "X", "!", ToString(k), "\n">>

\* for match in reversed(matches): result_text = result_text[:match.start()] +
\* result_str + result_text[match.end():], the offsets being those of the match in text
RECURSIVE ReplaceMatches(_, _, _)
ReplaceMatches(result_text, starts, k) ==
    IF starts = {} THEN result_text
    ELSE LET start == Max(starts)
             end == start + Len(Patterns[k])
         IN ReplaceMatches(SliceTo(result_text, start) \o FormatResult(k, net.handlers[k])
                               \o SliceFrom(result_text, end),
                           starts \ {start}, k)

\* for pattern, handler in patterns: the matches are looked up in text
RECURSIVE ProcessFrom(_, _, _)
ProcessFrom(result_text, text, k) ==
    IF k > Len(Patterns) THEN result_text
    ELSE ProcessFrom(ReplaceMatches(result_text, Finditer(k, text), k), text, k + 1)

process_tool_calls(text) == ProcessFrom(text, text, 1)

ProcessToolCalls ==
    /\ tool' = "process_tool_calls"
    /\ out' = process_tool_calls(args.text)
    /\ exc' = "None"
    /\ UNCHANGED <<dominio, net, args, sent, log, prev, pc, buf, probed>>

\* the texts: up to MaxPieces pieces, each a plain character or a tag
MaxPieces == 3
Pieces == {<<"a">>} \cup Range(Patterns)
Texts == {Concat(p) : p \in UNION {[1..n -> Pieces] : n \in 0..MaxPieces}}

InitHost ==
    /\ dominio = Apex
    /\ net \in [handlers : [1..Len(Patterns) -> HandlerOutcomes]]
    /\ tool = "none"
    /\ args \in [text : Texts]
    /\ out = NoReport
    /\ exc = "None"
    /\ sent = <<>>
    /\ log = <<>>
    /\ prev = None
    /\ pc = [w \in Writers |-> "idle"]
    /\ buf = [w \in Writers |-> <<>>]
    /\ probed = <<>>

NextHost == ProcessToolCalls

SpecHost == InitHost /\ [][NextHost]_vars

\* the text with every tag replaced by the formatted result of its handler, the
\* other characters staying as they are
RECURSIVE Rendered(_)
Rendered(text) ==
    IF text = <<>> THEN <<>>
    ELSE LET hits == {k \in 1..Len(Patterns) :
                        Len(text) >= Len(Patterns[k]) /\ SubSeq(text, 1, Len(Patterns[k])) = Patterns[k]}
         IN IF hits = {} THEN <<Head(text)>> \o Rendered(Tail(text))
            ELSE LET k == CHOOSE x \in hits : TRUE
                 IN FormatResult(k, net.handlers[k])
                        \o Rendered(SubSeq(text, Len(Patterns[k]) + 1, Len(text)))

\* C30 as claimed: process_tool_calls replaces each tag of the text by the formatted
\* result of its handler and leaves every character outside the tags unchanged and
\* in order, for any number of tags of the same or of different tools.
C30_TagsReplacedInPlace ==
    tool = "process_tool_calls" => out = Rendered(args.text)

============================================================================
